---- MODULE Spec2Model ----
(***************************************************************************)
(* PageLens: the bounded, domain-scoped crawl traversal of                 *)
(* backend/src/crawler/crawler.js (crawlWebsite and its helpers).          *)
(*                                                                         *)
(* One run of crawlWebsite is a sequential async function; the model has   *)
(* one action per stretch of code between two awaits.  The renderer        *)
(* (Playwright) and the crawled web site are the environment: the site is  *)
(* a link graph picked in Init, and every await on the renderer either     *)
(* resolves or rejects.  The release calls page.close() and                *)
(* browser.close() are taken to resolve.                                   *)
(***************************************************************************)
EXTENDS Integers, Sequences, FiniteSets, TLC

\* ------------------------------------------------------------------------
\* Program constants (crawler.js:9-10)
MAX_DEPTH == 2
MAX_PAGES == 15

\* Bounds of the model
MaxFailures == 2      \* page fetches that may fail in one run
WidePages   == 16     \* pages linked from the home page of the wide site
DeepLinks   == 12     \* second-level pages linked from every page of the wide site

\* ------------------------------------------------------------------------
\* URLs.  A URL string is modelled by the parts the code's regular
\* expressions and the WHATWG URL parser tell apart:
\*   scheme  "https" | "http" | "mailto" | "none" ("none": not parseable)
\*   host    host[:port], "" for mailto
\*   name,id the path "/<name><id>"
\*   ext     a file extension ending the path, "" for none
\*   upper   the path is written in upper case
\*   tail    what follows the path: "" | "/" | "#" | "#top" | "?q=1"
Url(scheme, host, name, id, ext, upper, tail) ==
    [scheme |-> scheme, host |-> host, name |-> name, id |-> id,
     ext |-> ext, upper |-> upper, tail |-> tail]

SiteHost == "site.test"

\* https://site.test/p<i>
Pg(i) == Url("https", SiteHost, "p", i, "", FALSE, "")
\* the same page, written another way
PgAs(i, upper, tail) == Url("https", SiteHost, "p", i, "", upper, tail)

Parseable(u) == u.scheme # "none"

\* new URL(url).origin: scheme://host[:port] for http(s), "null" for mailto:
Origin(u) ==
    IF u.scheme \in {"https", "http"}
    THEN [scheme |-> u.scheme, host |-> u.host]
    ELSE [scheme |-> "null", host |-> ""]

NoOrigin == [scheme |-> "", host |-> ""]

\* (faulty variant: the exception of new URL() is not turned into null)
getBaseDomainNoCatch(u) == Origin(u)

\* getBaseDomain: the origin, or null (NoOrigin) when the URL does not parse
getBaseDomain(u) == IF Parseable(u) THEN Origin(u) ELSE NoOrigin

\* normalizeUrl: origin + pathname, one trailing slash removed, lower-cased;
\* the query and the fragment are not part of origin + pathname.  An
\* unparseable string is returned as it is.
normalizeUrl(u) ==
    IF Parseable(u) THEN [u EXCEPT !.upper = FALSE, !.tail = ""] ELSE u

\* (faulty variant: compares the host and forgets the scheme)
isInternalUrlHostOnly(u, baseDomain) ==
    Parseable(u) /\ Origin(u).host = baseDomain.host

\* isInternalUrl: same origin as the base domain; false when unparseable
isInternalUrl(u, baseDomain) ==
    Parseable(u) /\ Origin(u) = baseDomain

\* shouldSkipUrl: the skip patterns, tested on the raw URL string
SkipExts ==
    {".pdf", ".zip", ".doc", ".docx", ".xls", ".xlsx", ".ppt", ".pptx", ".exe", ".dmg",
     ".jpg", ".jpeg", ".png", ".gif", ".svg", ".webp", ".ico",
     ".mp3", ".mp4", ".avi", ".mov", ".wav",
     ".css", ".js", ".json", ".xml"}
SkipSchemes == {"mailto", "tel", "javascript"}
LogoutNames == {"logout", "signout", "sign-out"}

\* (faulty variant: the /#$/ pattern is missing)
shouldSkipUrlNoHash(u) ==
    \/ u.ext \in SkipExts /\ u.tail = ""
    \/ u.scheme \in SkipSchemes
    \/ u.name \in LogoutNames

\* shouldSkipUrl: skipPatterns.some(pattern => pattern.test(url))
shouldSkipUrl(u) ==
    \/ u.ext \in SkipExts /\ u.tail = ""      \* /\.(ext)$/i: the extension ends the string
    \/ u.scheme \in SkipSchemes               \* /^mailto:/i, /^tel:/i, /^javascript:/i
    \/ u.tail = "#"                           \* /#$/
    \/ u.name \in LogoutNames                 \* /\/(logout|signout|sign-out)/i

\* ------------------------------------------------------------------------
\* The crawled web: three sites, each a link graph over page URLs.
Sites == {"wide", "deep", "forms"}

\* links that no crawl may follow, and other spellings of pages
External  == Url("https", "other.test", "p", 1, "", FALSE, "")
OtherPort == Url("https", "site.test:8443", "p", 1, "", FALSE, "")
Plain     == Url("http", SiteHost, "p", 1, "", FALSE, "")
MailTo    == Url("mailto", "", "team", 0, "", FALSE, "")
Pdf       == Url("https", SiteHost, "p", 30, ".pdf", FALSE, "")
PdfQuery  == Url("https", SiteHost, "p", 30, ".pdf", FALSE, "?q=1")
Logout    == Url("https", SiteHost, "logout", 0, "", FALSE, "")
Broken    == Url("none", "", "p", 0, "", FALSE, "")

DeepPg(j) == Pg(WidePages + j)

\* document.querySelectorAll('a[href]') of the page served for path /p<id>
Links(site, id) ==
    CASE site = "wide" /\ id = 0 ->
           [i \in 1..WidePages |-> Pg(i)] \o <<External, MailTo, PgAs(0, FALSE, "#top")>>
      [] site = "wide" /\ id \in 1..WidePages ->
           <<Pg(0), Pg(id + 1)>> \o [j \in 1..DeepLinks |-> DeepPg(j)]
      [] site = "wide" /\ id > WidePages -> <<Pg(0), Pg(id + 1)>>
      [] site = "deep" /\ id \in 0..5 -> <<Pg(id + 1), Pg(0), PgAs(id, TRUE, "/")>>
      [] site = "forms" /\ id = 0 ->
           <<PgAs(1, TRUE, ""), Pg(1), PgAs(1, FALSE, "/"), PgAs(1, FALSE, "#top"),
             PgAs(1, FALSE, "?q=1"), PgAs(0, FALSE, "#"), PgAs(2, FALSE, "#"),
             External, OtherPort, Plain, MailTo, Pdf, PdfQuery, Logout, Broken,
             Pg(2)>>
      [] site = "forms" /\ id = 1 -> <<Pg(2), PgAs(3, FALSE, "#"), Pg(3), Pdf>>
      [] site = "forms" /\ id = 30 -> <<Pg(4), Logout>>
      [] OTHER -> <<>>

\* page.url() after navigation: the forms site redirects /p2 to /p5
FinalUrl(site, u) ==
    IF site = "forms" /\ u.name = "p" /\ u.id = 2 /\ u.ext = ""
    THEN Pg(5) ELSE u

StartUrls ==
    {PgAs(0, TRUE, "/"), PgAs(0, FALSE, "#"), Logout, Broken}

\* ------------------------------------------------------------------------
VARIABLES
    pc,               \* where the run of crawlWebsite stands
    site,             \* the web site being crawled (environment)
    startUrl,         \* the argument of crawlWebsite
    baseDomain,
    visited,          \* Set of normalized URLs
    queue,            \* Array of {url, depth}
    snapshots,        \* Array of page snapshots
    crawlErrors,      \* Array of {url, error}
    crawlLimitations, \* Array of notices
    browser,          \* "undefined" | "open" | "closed"
    launches,         \* how many browsers this run has launched
    openPages,        \* pages open in the browser context
    cur,              \* the {url, depth} dequeued by this iteration, as a 0/1 sequence
    page,             \* this iteration's page: "undefined" | "open" | "closed"
    err,              \* the exception caught by the iteration's catch, "" for none
    thrown,           \* the exception escaping the function body, "" for none
    fetched,          \* the URLs whose fetch (lines 157-175) was started, in order
    outcome,          \* "running" | "returned" | "rejected"
    request,          \* the body of the POST /analyze request being served
    response,         \* the HTTP response sent for it, status 0 while none is sent
    pages,            \* the page snapshots handed to the analysis steps
    classification,   \* the result of classifyAllPages
    extracted,        \* the result of extractClaims
    comparison        \* the result of compareClaimsVsDetections

\* the variables of the analysis that follows a crawl; a run of crawlWebsite
\* on its own leaves them alone
analysisVars == <<request, response, pages, classification, extracted, comparison>>

vars == <<pc, site, startUrl, baseDomain, visited, queue, snapshots, crawlErrors,
          crawlLimitations, browser, launches, openPages, cur, page, err, thrown,
          fetched, outcome, request, response, pages, classification, extracted,
          comparison>>

\* no request is being served and no analysis step has run
AnalysisIdle ==
    /\ request = [type |-> "none"]
    /\ response = [status |-> 0]
    /\ pages = <<>>
    /\ classification = [pageClassifications |-> <<>>, detectedFeatures |-> <<>>]
    /\ extracted = [url |-> "", claims |-> <<>>]
    /\ comparison = [findings |-> <<>>]

Entry(u, d) == [url |-> u, depth |-> d]

Init ==
    /\ pc = "start"
    /\ site \in Sites
    /\ startUrl \in StartUrls
    /\ baseDomain = NoOrigin
    /\ visited = {}
    /\ queue = <<>>
    /\ snapshots = <<>>
    /\ crawlErrors = <<>>
    /\ crawlLimitations = <<>>
    /\ browser = "undefined"
    /\ launches = 0
    /\ openPages = 0
    /\ cur = <<>>
    /\ page = "undefined"
    /\ err = ""
    /\ thrown = ""
    /\ fetched = <<>>
    /\ outcome = "running"
    /\ AnalysisIdle

\* ------------------------------------------------------------------------
\* Pieces of the loop body, as the code computes them

\* (faulty variants: no page ceiling; a ceiling that is one too high)
LoopConditionNoCap(q, s) == Len(q) > 0

LoopConditionOffByOne(q, s) == Len(q) > 0 /\ Len(s) <= MAX_PAGES

\* while (queue.length > 0 && snapshots.length < MAX_PAGES)
LoopCondition(q, s) == Len(q) > 0 /\ Len(s) < MAX_PAGES

\* (faulty variant: the head is read and not removed)
ShiftedPeek(q) == q

\* queue.shift(): what is left of the queue
Shifted(q) == Tail(q)

\* (faulty variant: the visited set is never consulted)
VisitedHasNever(v, n) == FALSE

\* visited.has(normalizedUrl)
VisitedHas(v, n) == n \in v

\* (faulty variant: <= for <)
DepthAllowsInclusive(depth) == depth <= MAX_DEPTH

\* if (depth < MAX_DEPTH)
DepthAllows(depth) == depth < MAX_DEPTH

\* newLinks: the hrefs that are internal, not skipped and not yet visited
NewLinks(links, base, v) ==
    LET Keep(h) == /\ isInternalUrl(h, base)
                   /\ ~shouldSkipUrl(h)
                   /\ ~VisitedHas(v, normalizeUrl(h))
    IN  SelectSeq(links, Keep)

\* (faulty variant: every new link is pushed)
EnqueueUnbounded(q, links, depth, nSnapshots) ==
    q \o [i \in 1..Len(links) |-> Entry(links[i], depth + 1)]

\* for (const link of newLinks)
\*   if (queue.length + snapshots.length < MAX_PAGES * 2) queue.push(...)
RECURSIVE Enqueue(_, _, _, _)
Enqueue(q, links, depth, nSnapshots) ==
    IF links = <<>> THEN q
    ELSE IF Len(q) + nSnapshots < MAX_PAGES * 2
         THEN Enqueue(Append(q, Entry(Head(links), depth + 1)), Tail(links),
                      depth, nSnapshots)
         ELSE Enqueue(q, Tail(links), depth, nSnapshots)

\* (faulty variant: the error is swallowed)
CaughtDropped(errors, u, e) == errors

\* catch (err) { crawlErrors.push({url, error: err.message}) }
Caught(errors, u, e) == Append(errors, [url |-> u, error |-> e])

\* (faulty variant: the browser is not closed)
BrowserLeftOpen(b) == b

\* finally { if (browser) await browser.close() }
BrowserAfterFinally(b) == IF b = "open" THEN "closed" ELSE b

\* finally { if (page) await page.close() }
PagesAfterFinally(p, n) == IF p = "open" THEN n - 1 ELSE n

\* ------------------------------------------------------------------------
\* crawlWebsite, lines 126-135: the base domain and the run's collections
Start ==
    /\ pc = "start"
    /\ baseDomain' = getBaseDomain(startUrl)
    /\ IF getBaseDomain(startUrl) = NoOrigin
       THEN /\ pc' = "done"
            /\ thrown' = "Invalid URL"
            /\ outcome' = "rejected"
            /\ UNCHANGED queue
       ELSE /\ pc' = "launch"
            /\ queue' = <<Entry(startUrl, 0)>>
            /\ UNCHANGED <<thrown, outcome>>
    /\ UNCHANGED <<site, startUrl, visited, snapshots, crawlErrors, crawlLimitations,
                   browser, launches, openPages, cur, page, err, fetched>>
    /\ UNCHANGED analysisVars

\* line 139: browser = await chromium.launch(...)
Launch ==
    /\ pc = "launch"
    /\ \/ /\ browser' = "open"
          /\ launches' = launches + 1
          /\ pc' = "context"
          /\ UNCHANGED thrown
       \/ /\ thrown' = "launch failed"
          /\ pc' = "finally"
          /\ UNCHANGED <<browser, launches>>
    /\ UNCHANGED <<site, startUrl, baseDomain, visited, queue, snapshots, crawlErrors,
                   crawlLimitations, openPages, cur, page, err, fetched, outcome>>
    /\ UNCHANGED analysisVars

\* line 143: const context = await browser.newContext(...)
NewContext ==
    /\ pc = "context"
    /\ \/ /\ pc' = "loop"
          /\ UNCHANGED thrown
       \/ /\ thrown' = "newContext failed"
          /\ pc' = "finally"
    /\ UNCHANGED <<site, startUrl, baseDomain, visited, queue, snapshots, crawlErrors,
                   crawlLimitations, browser, launches, openPages, cur, page, err,
                   fetched, outcome>>
    /\ UNCHANGED analysisVars

\* lines 148-155: the loop test, the dequeue, the two continues, visited.add
LoopHead ==
    /\ pc = "loop"
    /\ IF ~LoopCondition(queue, snapshots)
       THEN /\ pc' = "limits"
            /\ UNCHANGED <<queue, visited, cur, page, err>>
       ELSE LET e == Head(queue)
                n == normalizeUrl(e.url)
            IN  /\ queue' = Shifted(queue)
                /\ IF VisitedHas(visited, n) \/ shouldSkipUrl(e.url)
                   THEN /\ pc' = "loop"
                        /\ UNCHANGED <<visited, cur, page, err>>
                   ELSE /\ visited' = visited \cup {n}
                        /\ cur' = <<e>>
                        /\ page' = "undefined"
                        /\ err' = ""
                        /\ pc' = "newPage"
    /\ UNCHANGED <<site, startUrl, baseDomain, snapshots, crawlErrors, crawlLimitations,
                   browser, launches, openPages, thrown, fetched, outcome>>
    /\ UNCHANGED analysisVars

\* line 159: page = await context.newPage()
NewPage ==
    /\ pc = "newPage"
    /\ fetched' = Append(fetched, cur[1].url)
    /\ \/ /\ page' = "open"
          /\ openPages' = openPages + 1
          /\ pc' = "goto"
          /\ UNCHANGED err
       \/ /\ Len(crawlErrors) < MaxFailures
          /\ err' = "newPage failed"
          /\ pc' = "catch"
          /\ UNCHANGED <<page, openPages>>
    /\ UNCHANGED <<site, startUrl, baseDomain, visited, queue, snapshots, crawlErrors,
                   crawlLimitations, browser, launches, cur, thrown, outcome>>
    /\ UNCHANGED analysisVars

\* lines 162-192: navigate, wait, extract, snapshot, collect the links
Goto ==
    /\ pc = "goto"
    /\ \/ LET u     == cur[1].url
              depth == cur[1].depth
              links == Links(site, u.id)
              snaps == Append(snapshots, [url |-> FinalUrl(site, u)])
          IN  /\ snapshots' = snaps
              /\ queue' = IF DepthAllows(depth)
                          THEN Enqueue(queue, NewLinks(links, baseDomain, visited),
                                       depth, Len(snaps))
                          ELSE queue
              /\ pc' = "pageFinally"
              /\ UNCHANGED err
       \/ /\ Len(crawlErrors) < MaxFailures
          /\ err' = "Timeout 30000ms exceeded"
          /\ pc' = "catch"
          /\ UNCHANGED <<snapshots, queue>>
    /\ UNCHANGED <<site, startUrl, baseDomain, visited, crawlErrors, crawlLimitations,
                   browser, launches, openPages, cur, page, thrown, fetched, outcome>>
    /\ UNCHANGED analysisVars

\* lines 194-198: the catch of the iteration
Catch ==
    /\ pc = "catch"
    /\ crawlErrors' = Caught(crawlErrors, cur[1].url, err)
    /\ pc' = "pageFinally"
    /\ UNCHANGED <<site, startUrl, baseDomain, visited, queue, snapshots,
                   crawlLimitations, browser, launches, openPages, cur, page, err,
                   thrown, fetched, outcome>>
    /\ UNCHANGED analysisVars

\* lines 199-201: the finally of the iteration
ClosePage ==
    /\ pc = "pageFinally"
    /\ openPages' = PagesAfterFinally(page, openPages)
    /\ page' = IF page = "open" THEN "closed" ELSE page
    /\ pc' = "loop"
    /\ UNCHANGED <<site, startUrl, baseDomain, visited, queue, snapshots, crawlErrors,
                   crawlLimitations, browser, launches, cur, err, thrown, fetched,
                   outcome>>
    /\ UNCHANGED analysisVars

\* (faulty variant: the notice is pushed whether or not the queue is empty)
RemainingNoticeAlways(q) ==
    <<[kind |-> "remaining", pages |-> MAX_PAGES, count |-> Len(q)]>>

\* lines 204-207: if (queue.length > 0)
\*   push(`Stopped at ${MAX_PAGES} pages, ${queue.length} URLs remaining in queue`)
RemainingNotice(q) ==
    IF Len(q) > 0
    THEN <<[kind |-> "remaining", pages |-> MAX_PAGES, count |-> Len(q)]>>
    ELSE <<>>

\* (faulty variant: the snapshots are not subtracted)
SkippedNoticeVisitedOnly(v, s) ==
    IF Cardinality(v) > Len(s)
    THEN <<[kind |-> "errors", pages |-> 0, count |-> Cardinality(v)]>>
    ELSE <<>>

\* lines 208-210: if (visited.size > snapshots.length)
\*   push(`${visited.size - snapshots.length} pages skipped due to errors`)
SkippedNotice(v, s) ==
    IF Cardinality(v) > Len(s)
    THEN <<[kind |-> "errors", pages |-> 0, count |-> Cardinality(v) - Len(s)]>>
    ELSE <<>>

\* lines 204-210: the limitation notices
RecordLimitations ==
    /\ pc = "limits"
    /\ crawlLimitations' = RemainingNotice(queue) \o SkippedNotice(visited, snapshots)
    /\ pc' = "finally"
    /\ UNCHANGED <<site, startUrl, baseDomain, visited, queue, snapshots, crawlErrors,
                   browser, launches, openPages, cur, page, err, thrown, fetched,
                   outcome>>
    /\ UNCHANGED analysisVars

\* lines 212-229: the outer finally, then the return (or the rethrow)
CloseBrowser ==
    /\ pc = "finally"
    /\ browser' = BrowserAfterFinally(browser)
    /\ openPages' = IF browser = "open" THEN 0 ELSE openPages
    /\ outcome' = IF thrown = "" THEN "returned" ELSE "rejected"
    /\ pc' = "done"
    /\ UNCHANGED <<site, startUrl, baseDomain, visited, queue, snapshots, crawlErrors,
                   crawlLimitations, launches, cur, page, err, thrown, fetched>>
    /\ UNCHANGED analysisVars

Next ==
    \/ Start
    \/ Launch
    \/ NewContext
    \/ LoopHead
    \/ NewPage
    \/ Goto
    \/ Catch
    \/ ClosePage
    \/ RecordLimitations
    \/ CloseBrowser

Spec == Init /\ [][Next]_vars

\* Every await of the run resolves or rejects, so the run keeps taking steps
FairSpec == Spec /\ WF_vars(Next)

\* ------------------------------------------------------------------------
\* Claims about the traversal

\* the entries a step appends to the queue, given the queue the step started
\* from after its dequeue (none when the queue did not grow)
Appended(before, after) ==
    IF Len(after) > Len(before)
    THEN SubSeq(after, Len(before) + 1, Len(after))
    ELSE <<>>

\* C1: in every state of the traversal, and in the returned result, the
\* number of snapshots is at most MAX_PAGES.
C1_SnapshotsAtMostMaxPages == Len(snapshots) <= MAX_PAGES

\* the page ceiling stops a run that still has URLs queued, after failures
C1_Witness ==
    /\ pc = "done" /\ outcome = "returned"
    /\ Len(snapshots) = MAX_PAGES
    /\ Len(queue) > 0
    /\ Len(crawlErrors) > 0

\* C2 (as stated): the visited set has at most MAX_PAGES elements at every
\* point of a run, counting the URLs whose fetch failed.
C2_VisitedAtMostMaxPages == Cardinality(visited) <= MAX_PAGES

\* C2 (amended): the ceiling bounds the URLs fetched successfully; the
\* visited set has at most MAX_PAGES elements more than there are failed
\* fetches.
C2_VisitedAtMostMaxPagesPlusErrors ==
    Cardinality(visited) <= MAX_PAGES + Len(crawlErrors)

\* a finished run that visited more than MAX_PAGES URLs
C2_Witness ==
    /\ pc = "done" /\ outcome = "returned"
    /\ Cardinality(visited) > MAX_PAGES
    /\ Len(snapshots) = MAX_PAGES

\* C3: no queue entry has a depth above MAX_DEPTH, no page is fetched at a
\* depth above MAX_DEPTH, and a step enqueues links, at depth + 1, only when
\* the fetched page's depth is strictly below MAX_DEPTH.
C3_DepthBounded ==
    [][ /\ \A i \in 1..Len(queue') : queue'[i].depth <= MAX_DEPTH
        /\ pc' \in {"newPage", "goto"} => cur'[1].depth <= MAX_DEPTH
        /\ pc = "goto" =>
              \A i \in 1..Len(Appended(queue, queue')) :
                  /\ cur[1].depth < MAX_DEPTH
                  /\ Appended(queue, queue')[i].depth = cur[1].depth + 1 ]_vars

\* a page at depth MAX_DEPTH was fetched and has links the crawl has not seen,
\* none of which was enqueued
C3_Witness ==
    /\ pc = "pageFinally" /\ err = ""
    /\ cur[1].depth = MAX_DEPTH
    /\ NewLinks(Links(site, cur[1].url.id), baseDomain, visited) # <<>>

\* C4: each normalized URL is fetched at most once per run; a URL is in the
\* visited set before its fetch starts, so a failed fetch is not repeated.
C4_FetchedAtMostOnce ==
    /\ \A i, j \in 1..Len(fetched) :
          i # j => normalizeUrl(fetched[i]) # normalizeUrl(fetched[j])
    /\ pc \in {"newPage", "goto", "catch"} => normalizeUrl(cur[1].url) \in visited
    /\ \A i \in 1..Len(fetched) : normalizeUrl(fetched[i]) \in visited

\* the next URL of the queue is another spelling of a URL whose fetch failed
C4_Witness ==
    /\ pc = "loop" /\ Len(queue) > 0
    /\ \E i \in 1..Len(crawlErrors) :
          /\ normalizeUrl(crawlErrors[i].url) = normalizeUrl(Head(queue).url)
          /\ crawlErrors[i].url # Head(queue).url

\* C5: a failing fetch appends exactly one {url, error} to crawlErrors, adds
\* no snapshot, leaves the queue as it is, and the loop goes on to its next
\* test; a run in which fetches failed still returns a result.
C5_PageFailureNotFatal ==
    [][ /\ (pc \in {"newPage", "goto"} /\ pc' = "catch") =>
              /\ err' # ""
              /\ queue' = queue /\ snapshots' = snapshots
              /\ crawlErrors' = crawlErrors
        /\ pc = "catch" =>
              /\ crawlErrors' = Append(crawlErrors, [url |-> cur[1].url, error |-> err])
              /\ queue' = queue /\ snapshots' = snapshots
              /\ pc' = "pageFinally" /\ thrown' = ""
        /\ pc = "pageFinally" =>
              /\ pc' = "loop" /\ thrown' = ""
              /\ queue' = queue /\ snapshots' = snapshots
              /\ crawlErrors' = crawlErrors
        /\ (pc' = "done" /\ Len(crawlErrors') > 0) => outcome' = "returned" ]_vars

\* a run returned a result with a snapshot taken after a fetch had failed
C5_Witness ==
    /\ pc = "done" /\ outcome = "returned"
    /\ Len(crawlErrors) > 0 /\ Len(snapshots) > 0
    /\ \E i \in 1..Len(fetched) :
          /\ fetched[i] = crawlErrors[1].url
          /\ i < Len(fetched)
          /\ snapshots[Len(snapshots)].url = FinalUrl(site, fetched[Len(fetched)])

\* the skip patterns as the claim lists them
MatchesSkipPattern(u) ==
    \/ u.tail = "" /\ u.ext \in
          {".pdf", ".zip", ".doc", ".docx", ".xls", ".xlsx", ".ppt", ".pptx", ".exe",
           ".dmg", ".jpg", ".jpeg", ".png", ".gif", ".svg", ".webp", ".ico", ".mp3",
           ".mp4", ".avi", ".mov", ".wav", ".css", ".js", ".json", ".xml"}
    \/ u.scheme \in {"mailto", "tel", "javascript"}
    \/ u.tail = "#"
    \/ u.name \in {"logout", "signout", "sign-out"}

\* C6: dequeuing a URL that matches a skip pattern only removes it from the
\* queue (no fetch, no visited entry, no error, no snapshot), and no step
\* enqueues a URL that matches a skip pattern.
C6_SkippedUrlsLeaveNoTrace ==
    [][ /\ (pc = "loop" /\ LoopCondition(queue, snapshots)
               /\ MatchesSkipPattern(Head(queue).url)) =>
              /\ queue' = Tail(queue)
              /\ pc' = "loop"
              /\ UNCHANGED <<visited, crawlErrors, snapshots, fetched, cur,
                             openPages, crawlLimitations>>
        /\ pc = "goto" =>
              \A i \in 1..Len(Appended(queue, queue')) :
                  ~MatchesSkipPattern(Appended(queue, queue')[i].url) ]_vars

\* a run that was given a URL matching a skip pattern ended with nothing
\* fetched, nothing visited and no error
C6_Witness ==
    /\ pc = "done" /\ outcome = "returned"
    /\ MatchesSkipPattern(startUrl)
    /\ fetched = <<>> /\ visited = {} /\ queue = <<>>
    /\ crawlErrors = <<>> /\ snapshots = <<>>

\* C7: every URL in the queue, and every URL whose fetch was started, has the
\* origin (scheme, host, port) of the start URL.
C7_SameOrigin ==
    /\ \A i \in 1..Len(queue) :
          Parseable(queue[i].url) /\ Origin(queue[i].url) = Origin(startUrl)
    /\ \A i \in 1..Len(fetched) :
          Parseable(fetched[i]) /\ Origin(fetched[i]) = Origin(startUrl)

\* a page linking to other origins (another host, another port, another
\* scheme) was fetched, and a link of it is being fetched
C7_Witness ==
    /\ site = "forms" /\ pc = "goto"
    /\ cur[1].depth = 1
    /\ \E i \in 1..Len(Links(site, 0)) :
          /\ Parseable(Links(site, 0)[i])
          /\ Origin(Links(site, 0)[i]) # Origin(startUrl)
          /\ Links(site, 0)[i].host = startUrl.host

\* C8: the loop halts: from every state of the loop the run reaches the state
\* after the loop, with the queue empty or MAX_PAGES snapshots taken.
C8_TraversalHalts ==
    (pc = "loop") ~>
        (pc = "limits" /\ (Len(queue) = 0 \/ Len(snapshots) = MAX_PAGES))

\* the loop has halted on a cyclic link graph with URLs still queued
C8_Witness ==
    /\ pc = "limits"
    /\ Len(snapshots) = MAX_PAGES /\ Len(queue) > 0
    /\ \E i \in 1..Len(queue) : normalizeUrl(queue[i].url) \in visited

\* C9: a run launches at most one browser; when a run that launched one has
\* ended, by returning or by an exception, the browser is closed; no page is
\* open when the loop dequeues the next URL.
C9_RendererReleased ==
    /\ launches <= 1
    /\ (pc = "done" /\ launches > 0) => browser = "closed"
    /\ outcome # "running" => pc = "done"
    /\ pc \in {"loop", "limits", "finally", "done"} => openPages = 0

\* a run ended by an exception after its browser was launched
C9_Witness ==
    /\ pc = "done" /\ outcome = "rejected"
    /\ launches = 1 /\ browser = "closed"

\* ------------------------------------------------------------------------
\* Claims about the limitation notices and the start URL

\* the loop has been left and the notices have been recorded
Halted == pc \in {"finally", "done"} /\ thrown = ""

Notices(kind) ==
    {i \in 1..Len(crawlLimitations) : crawlLimitations[i].kind = kind}

\* the distinct normalized URLs of the queue that are not in the visited set
UnvisitedInQueue ==
    {normalizeUrl(queue[i].url) : i \in 1..Len(queue)} \ visited

\* C11 (as stated): when the queue is not empty at halt, the notice reports
\* the number of distinct normalized URLs of the queue that were not visited.
C11_NoticeCountsUnvisited ==
    (Halted /\ Len(queue) > 0) =>
        \E i \in Notices("remaining") :
            crawlLimitations[i].count = Cardinality(UnvisitedInQueue)

\* C11 (amended): at halt there is a "remaining" notice exactly when the queue
\* is not empty and MAX_PAGES snapshots were taken; the number it reports is
\* the number of entries left in the queue, duplicates and visited URLs
\* included, which is at least the number of distinct unvisited URLs.
C11_NoticeCountsQueueEntries ==
    Halted =>
        /\ Cardinality(Notices("remaining")) = (IF Len(queue) > 0 THEN 1 ELSE 0)
        /\ \A i \in Notices("remaining") :
              /\ crawlLimitations[i].count = Len(queue)
              /\ crawlLimitations[i].count >= Cardinality(UnvisitedInQueue)
              /\ crawlLimitations[i].pages = MAX_PAGES
              /\ Len(snapshots) = MAX_PAGES

\* a halted run whose notice reports more than the unvisited URLs of the queue
C11_Witness ==
    /\ pc = "done" /\ Halted
    /\ \E i \in Notices("remaining") :
          crawlLimitations[i].count > Cardinality(UnvisitedInQueue)

\* C12: between iterations and at halt every visited URL has produced a
\* snapshot or an error record; the "skipped due to errors" notice is there
\* exactly when some visited URL produced no snapshot, and it reports the
\* number of error records.
C12_SkippedNoticeCountsErrors ==
    /\ (pc \in {"loop", "limits"} \/ Halted) =>
          Cardinality(visited) = Len(snapshots) + Len(crawlErrors)
    /\ Halted =>
          /\ Cardinality(Notices("errors")) =
                (IF Cardinality(visited) > Len(snapshots) THEN 1 ELSE 0)
          /\ \A i \in Notices("errors") :
                crawlLimitations[i].count = Len(crawlErrors)

\* a halted run with snapshots and two failed pages, reported as two
C12_Witness ==
    /\ pc = "done" /\ Halted
    /\ Len(snapshots) > 0 /\ Len(crawlErrors) = 2
    /\ \E i \in Notices("errors") : crawlLimitations[i].count = 2

\* C13: a start URL that does not parse makes the run fail with
\* 'Invalid URL' before anything else happens: no browser, no page, no fetch,
\* no queue, visited set, snapshot or error record.
C13_InvalidStartUrlFailsEarly ==
    ~Parseable(startUrl) =>
        /\ launches = 0 /\ browser = "undefined" /\ openPages = 0
        /\ fetched = <<>> /\ queue = <<>> /\ visited = {}
        /\ snapshots = <<>> /\ crawlErrors = <<>> /\ crawlLimitations = <<>>
        /\ pc \in {"start", "done"}
        /\ pc = "done" => (thrown = "Invalid URL" /\ outcome = "rejected")

\* the run on the unparseable start URL has failed
C13_Witness ==
    /\ ~Parseable(startUrl)
    /\ pc = "done" /\ thrown = "Invalid URL" /\ outcome = "rejected"

\* ========================================================================
\* The page classifier (classifier.js over the catalog of patterns.js), the
\* claim extractor (extractor/claims.js) and the comparison engine work on
\* page snapshots only.  Strings are TLA+ strings.  A regular expression is
\* named by its source text (a backslash is written twice, a non-ASCII
\* character as its \u escape); what it does is given by RegExpTable, which
\* lists, for every string of the vocabulary below that the expression
\* matches, the matched substring match[0].  Expressions and strings that
\* are not listed do not match.

\* ------------------------------------------------------------------------
\* patterns.js: the catalog.  A signal is {type, value | pattern, weight}.
\* PATTERNS.AUTH_PAGE
AUTH_PAGE ==
    [id |-> "AUTH_PAGE", name |-> "Authentication Page", signals |-> <<
        [type |-> "input_type", value |-> "password", weight |-> 30],
        [type |-> "input_type", value |-> "email", weight |-> 15],
        [type |-> "input_name", pattern |-> "^(email|username|user|login)$", weight |-> 15],
        [type |-> "input_name", pattern |-> "^(password|pass|pwd)$", weight |-> 20],
        [type |-> "button_text", pattern |-> "^(log\\s*in|sign\\s*in|login|signin)$", weight |-> 25],
        [type |-> "button_text", pattern |-> "^(sign\\s*up|register|create\\s*account)$", weight |-> 25],
        [type |-> "button_text", pattern |-> "^(forgot\\s*password|reset\\s*password)$", weight |-> 20],
        [type |-> "link_text", pattern |-> "forgot.*password", weight |-> 15],
        [type |-> "link_text", pattern |-> "create.*account|sign.*up|register", weight |-> 15],
        [type |-> "visible_text", pattern |-> "sign\\s*in\\s*to\\s*your\\s*account", weight |-> 20],
        [type |-> "visible_text", pattern |-> "don'?t\\s*have\\s*an?\\s*account", weight |-> 15],
        [type |-> "visible_text", pattern |-> "already\\s*have\\s*an?\\s*account", weight |-> 15],
        [type |-> "url", pattern |-> "\\/(login|signin|auth|signup|register)", weight |-> 25]>>]

\* PATTERNS.SEARCH_PAGE
SEARCH_PAGE ==
    [id |-> "SEARCH_PAGE", name |-> "Search / Filter Page", signals |-> <<
        [type |-> "input_type", value |-> "search", weight |-> 35],
        [type |-> "input_name", pattern |-> "^(search|query|q|keyword|find)$", weight |-> 25],
        [type |-> "input_placeholder", pattern |-> "search", weight |-> 20],
        [type |-> "button_text", pattern |-> "^search$", weight |-> 25],
        [type |-> "button_text", pattern |-> "^(filter|apply\\s*filters?)$", weight |-> 20],
        [type |-> "button_text", pattern |-> "^(find|look\\s*up)$", weight |-> 15],
        [type |-> "visible_text", pattern |-> "search\\s*results?", weight |-> 20],
        [type |-> "visible_text", pattern |-> "no\\s*results?\\s*found", weight |-> 15],
        [type |-> "visible_text", pattern |-> "filter\\s*by", weight |-> 20],
        [type |-> "visible_text", pattern |-> "sort\\s*by", weight |-> 15],
        [type |-> "url", pattern |-> "\\/(search|find|results|browse)", weight |-> 20],
        [type |-> "url", pattern |-> "[?&](q|query|search)=", weight |-> 25]>>]

\* PATTERNS.LANDING_PAGE
LANDING_PAGE ==
    [id |-> "LANDING_PAGE", name |-> "Landing / Marketing Page", signals |-> <<
        [type |-> "button_text", pattern |-> "^(get\\s*started|try\\s*(it\\s*)?free|start\\s*(now|free|trial))$", weight |-> 30],
        [type |-> "button_text", pattern |-> "^(learn\\s*more|see\\s*how|discover)$", weight |-> 20],
        [type |-> "button_text", pattern |-> "^(book\\s*a?\\s*demo|request\\s*demo|schedule\\s*demo)$", weight |-> 25],
        [type |-> "button_text", pattern |-> "^(contact\\s*sales|talk\\s*to\\s*sales)$", weight |-> 20],
        [type |-> "visible_text", pattern |-> "trusted\\s*by|used\\s*by.*companies", weight |-> 20],
        [type |-> "visible_text", pattern |-> "\\d+[+k]?\\s*(users?|customers?|companies)", weight |-> 15],
        [type |-> "visible_text", pattern |-> "free\\s*trial|no\\s*credit\\s*card", weight |-> 20],
        [type |-> "visible_text", pattern |-> "features?|benefits?|why\\s*choose", weight |-> 15],
        [type |-> "visible_text", pattern |-> "pricing|plans?", weight |-> 10],
        [type |-> "visible_text", pattern |-> "testimonials?|what\\s*(our\\s*)?(customers?|clients?)\\s*say", weight |-> 20],
        [type |-> "link_text", pattern |-> "^(pricing|features?|about|blog|contact)$", weight |-> 15],
        [type |-> "url", pattern |-> "^https?:\\/\\/[^\\/]+\\/?$", weight |-> 25],
        [type |-> "url", pattern |-> "\\/(home|landing|welcome)$", weight |-> 20]>>]

\* PATTERNS.CONTENT_LISTING
CONTENT_LISTING ==
    [id |-> "CONTENT_LISTING", name |-> "Content / Listing Page", signals |-> <<
        [type |-> "visible_text", pattern |-> "showing\\s*\\d+.*results?", weight |-> 25],
        [type |-> "visible_text", pattern |-> "page\\s*\\d+\\s*(of\\s*\\d+)?", weight |-> 20],
        [type |-> "visible_text", pattern |-> "next\\s*page|previous\\s*page", weight |-> 15],
        [type |-> "visible_text", pattern |-> "load\\s*more|show\\s*more", weight |-> 15],
        [type |-> "visible_text", pattern |-> "items?\\s*per\\s*page", weight |-> 15],
        [type |-> "link_text", pattern |-> "^(next|prev(ious)?|\\d+|\\u00BB|\\u00AB|>|<)$", weight |-> 15],
        [type |-> "link_href", pattern |-> "[?&]page=\\d+", weight |-> 20],
        [type |-> "url", pattern |-> "\\/(products?|items?|listings?|catalog|articles?|posts?|blog)", weight |-> 20],
        [type |-> "url", pattern |-> "\\/category\\/", weight |-> 15]>>]

\* PATTERNS.CONTACT_SUPPORT
CONTACT_SUPPORT ==
    [id |-> "CONTACT_SUPPORT", name |-> "Contact / Support Page", signals |-> <<
        [type |-> "input_name", pattern |-> "^(name|fullname|first.?name)$", weight |-> 10],
        [type |-> "input_name", pattern |-> "^(email|e-mail)$", weight |-> 10],
        [type |-> "input_name", pattern |-> "^(message|subject|inquiry|question)$", weight |-> 20],
        [type |-> "input_type", value |-> "textarea", weight |-> 15],
        [type |-> "button_text", pattern |-> "^(send|submit|contact\\s*us)$", weight |-> 20],
        [type |-> "button_text", pattern |-> "^(get\\s*help|ask\\s*a?\\s*question)$", weight |-> 20],
        [type |-> "visible_text", pattern |-> "contact\\s*us|get\\s*in\\s*touch", weight |-> 25],
        [type |-> "visible_text", pattern |-> "support|help\\s*center|faq", weight |-> 20],
        [type |-> "visible_text", pattern |-> "email\\s*us|call\\s*us|write\\s*to\\s*us", weight |-> 20],
        [type |-> "visible_text", pattern |-> "phone|telephone|address|location", weight |-> 15],
        [type |-> "visible_text", pattern |-> "business\\s*hours|office\\s*hours", weight |-> 15],
        [type |-> "url", pattern |-> "\\/(contact|support|help|faq|reach-us)", weight |-> 25]>>]

\* PATTERNS.ECOMMERCE
ECOMMERCE ==
    [id |-> "ECOMMERCE", name |-> "E-commerce Page", signals |-> <<
        [type |-> "button_text", pattern |-> "^(add\\s*to\\s*cart|buy\\s*now|purchase)$", weight |-> 35],
        [type |-> "button_text", pattern |-> "^(checkout|proceed\\s*to\\s*checkout)$", weight |-> 30],
        [type |-> "button_text", pattern |-> "^(view\\s*cart|shopping\\s*cart)$", weight |-> 25],
        [type |-> "visible_text", pattern |-> "\\$\\d+\\.?\\d*|\\d+\\.?\\d*\\s*(USD|EUR|GBP)", weight |-> 20],
        [type |-> "visible_text", pattern |-> "add\\s*to\\s*cart|in\\s*stock|out\\s*of\\s*stock", weight |-> 25],
        [type |-> "visible_text", pattern |-> "free\\s*shipping|shipping.*\\$", weight |-> 20],
        [type |-> "visible_text", pattern |-> "quantity|qty", weight |-> 15],
        [type |-> "visible_text", pattern |-> "your\\s*cart|shopping\\s*cart", weight |-> 25],
        [type |-> "link_text", pattern |-> "^(cart|checkout|shop|store)$", weight |-> 20],
        [type |-> "url", pattern |-> "\\/(shop|store|cart|checkout|product)", weight |-> 25]>>]

\* PATTERNS.DASHBOARD
DASHBOARD ==
    [id |-> "DASHBOARD", name |-> "Dashboard / App Page", signals |-> <<
        [type |-> "visible_text", pattern |-> "dashboard|overview|analytics", weight |-> 25],
        [type |-> "visible_text", pattern |-> "welcome\\s*back|hello,?\\s*\\w+", weight |-> 20],
        [type |-> "visible_text", pattern |-> "my\\s*account|my\\s*profile|settings", weight |-> 20],
        [type |-> "visible_text", pattern |-> "recent\\s*activity|notifications?", weight |-> 15],
        [type |-> "visible_text", pattern |-> "log\\s*out|sign\\s*out", weight |-> 20],
        [type |-> "link_text", pattern |-> "^(dashboard|settings|profile|account|logout)$", weight |-> 20],
        [type |-> "url", pattern |-> "\\/(dashboard|app|portal|admin|account|settings)", weight |-> 25]>>]

\* PATTERNS.PRICING_PAGE
PRICING_PAGE ==
    [id |-> "PRICING_PAGE", name |-> "Pricing Page", signals |-> <<
        [type |-> "visible_text", pattern |-> "pricing|plans?\\s*&?\\s*pricing", weight |-> 30],
        [type |-> "visible_text", pattern |-> "\\$\\d+\\s*\\/?\\s*(mo|month|year|yr)", weight |-> 35],
        [type |-> "visible_text", pattern |-> "free\\s*plan|basic\\s*plan|pro\\s*plan|enterprise", weight |-> 25],
        [type |-> "visible_text", pattern |-> "per\\s*(user|seat|month)", weight |-> 20],
        [type |-> "visible_text", pattern |-> "billed\\s*(monthly|annually|yearly)", weight |-> 25],
        [type |-> "visible_text", pattern |-> "compare\\s*plans?|all\\s*features?", weight |-> 20],
        [type |-> "button_text", pattern |-> "^(choose|select|get)\\s*(this\\s*)?(plan|started)$", weight |-> 25],
        [type |-> "button_text", pattern |-> "^(upgrade|subscribe|start\\s*free\\s*trial)$", weight |-> 25],
        [type |-> "url", pattern |-> "\\/(pricing|plans|subscribe)", weight |-> 30]>>]

\* PATTERNS.UPLOAD_PAGE
UPLOAD_PAGE ==
    [id |-> "UPLOAD_PAGE", name |-> "Upload / Submit Page", signals |-> <<
        [type |-> "input_type", value |-> "file", weight |-> 40],
        [type |-> "input_name", pattern |-> "^(file|upload|attachment|document|media|image|video|photo)s?$", weight |-> 25],
        [type |-> "button_text", pattern |-> "^(upload|upload\\s*file|upload\\s*files?)$", weight |-> 30],
        [type |-> "button_text", pattern |-> "^(choose\\s*file|select\\s*file|browse\\s*files?)$", weight |-> 25],
        [type |-> "button_text", pattern |-> "^(submit|publish|post|share)$", weight |-> 15],
        [type |-> "button_text", pattern |-> "^(add\\s*(file|image|photo|video|media|document))$", weight |-> 25],
        [type |-> "visible_text", pattern |-> "drag\\s*(and|&)?\\s*drop", weight |-> 30],
        [type |-> "visible_text", pattern |-> "drop\\s*(your\\s*)?(files?|images?|documents?)\\s*here", weight |-> 30],
        [type |-> "visible_text", pattern |-> "upload\\s*(your\\s*)?(files?|images?|photos?|videos?|documents?|content)", weight |-> 25],
        [type |-> "visible_text", pattern |-> "select\\s*(a\\s*)?(file|image|photo|video|document)\\s*to\\s*upload", weight |-> 25],
        [type |-> "visible_text", pattern |-> "supported\\s*(file\\s*)?(formats?|types?)", weight |-> 20],
        [type |-> "visible_text", pattern |-> "max(imum)?\\s*(file\\s*)?size", weight |-> 20],
        [type |-> "visible_text", pattern |-> "\\.(jpg|jpeg|png|gif|pdf|doc|docx|mp4|mov|zip)", weight |-> 15],
        [type |-> "visible_text", pattern |-> "click\\s*(here\\s*)?to\\s*(upload|browse|select)", weight |-> 20],
        [type |-> "url", pattern |-> "\\/(upload|submit|import|add-file|new-post|create|share)", weight |-> 25],
        [type |-> "url", pattern |-> "\\/(media|files?|documents?|attachments?)", weight |-> 20]>>]

\* PATTERNS, in the order of Object.keys
PATTERNS ==
    <<AUTH_PAGE, SEARCH_PAGE, LANDING_PAGE, CONTENT_LISTING,
      CONTACT_SUPPORT, ECOMMERCE, DASHBOARD, PRICING_PAGE,
      UPLOAD_PAGE>>

\* getPatternIds: the ids in the order of the catalog
getPatternIds == [i \in 1..Len(PATTERNS) |-> PATTERNS[i].id]

\* what the regular expressions of the catalogs do on the vocabulary
RegExpTable ==
    "^(email|username|user|login)$" :>
        ("email" :> "email") @@
    "^(password|pass|pwd)$" :>
        ("password" :> "password") @@
    "^(log\\s*in|sign\\s*in|login|signin)$" :>
        ("Log In" :> "Log In") @@
    "^(sign\\s*up|register|create\\s*account)$" :>
        ("Sign Up" :> "Sign Up") @@
    "forgot.*password" :>
        ("Forgot password?" :> "Forgot password") @@
    "create.*account|sign.*up|register" :>
        ("Create an account" :> "Create an account" @@
         "Sign Up" :> "Sign Up" @@
         "https://acme.test/signup" :> "signup") @@
    "sign\\s*in\\s*to\\s*your\\s*account" :>
        ("Sign in to your account" :> "Sign in to your account") @@
    "\\/(login|signin|auth|signup|register)" :>
        ("https://acme.test/login" :> "/login" @@
         "https://acme.test/signup" :> "/signup") @@
    "^(search|query|q|keyword|find)$" :>
        ("Search" :> "Search" @@
         "q" :> "q" @@
         "search" :> "search") @@
    "search" :>
        ("Search" :> "Search" @@
         "Search products" :> "Search" @@
         "Search results: showing 10 results, page 1 of 3" :> "Search" @@
         "search" :> "search") @@
    "^search$" :>
        ("Search" :> "Search" @@
         "search" :> "search") @@
    "search\\s*results?" :>
        ("Search results: showing 10 results, page 1 of 3" :> "Search results") @@
    "[?&](q|query|search)=" :>
        ("https://site.test/p1?q=1" :> "?q=" @@
         "https://site.test/p30.pdf?q=1" :> "?q=") @@
    "^(get\\s*started|try\\s*(it\\s*)?free|start\\s*(now|free|trial))$" :>
        ("Get Started" :> "Get Started") @@
    "pricing|plans?" :>
        ("Pricing" :> "Pricing" @@
         "Pricing plans from $9/month, billed monthly" :> "Pricing" @@
         "https://acme.test/pricing" :> "pricing") @@
    "^(pricing|features?|about|blog|contact)$" :>
        ("Pricing" :> "Pricing") @@
    "^https?:\\/\\/[^\\/]+\\/?$" :>
        ("https://acme.test/" :> "https://acme.test/") @@
    "showing\\s*\\d+.*results?" :>
        ("Search results: showing 10 results, page 1 of 3" :> "showing 10 results") @@
    "page\\s*\\d+\\s*(of\\s*\\d+)?" :>
        ("Search results: showing 10 results, page 1 of 3" :> "page 1 of 3") @@
    "^(next|prev(ious)?|\\d+|\\u00BB|\\u00AB|>|<)$" :>
        ("Next" :> "Next") @@
    "[?&]page=\\d+" :>
        ("https://acme.test/blog?page=2" :> "?page=2") @@
    "\\/(products?|items?|listings?|catalog|articles?|posts?|blog)" :>
        ("https://acme.test/blog?page=2" :> "/blog") @@
    "^(email|e-mail)$" :>
        ("email" :> "email") @@
    "^(message|subject|inquiry|question)$" :>
        ("message" :> "message") @@
    "^(send|submit|contact\\s*us)$" :>
        ("Send" :> "Send" @@
         "Submit" :> "Submit") @@
    "support|help\\s*center|faq" :>
        ("24/7 support and live chat" :> "support") @@
    "\\/(contact|support|help|faq|reach-us)" :>
        ("https://acme.test/contact" :> "/contact") @@
    "^(add\\s*to\\s*cart|buy\\s*now|purchase)$" :>
        ("Add to Cart" :> "Add to Cart") @@
    "\\$\\d+\\.?\\d*|\\d+\\.?\\d*\\s*(USD|EUR|GBP)" :>
        ("Pricing plans from $9/month, billed monthly" :> "$9" @@
         "Shop now: buy or purchase, add to cart and checkout. Orders over $50 ship free" :> "$50") @@
    "add\\s*to\\s*cart|in\\s*stock|out\\s*of\\s*stock" :>
        ("Add to Cart" :> "Add to Cart" @@
         "Shop now: buy or purchase, add to cart and checkout. Orders over $50 ship free" :> "add to cart") @@
    "log\\s*out|sign\\s*out" :>
        ("https://site.test/logout0" :> "logout") @@
    "pricing|plans?\\s*&?\\s*pricing" :>
        ("Pricing" :> "Pricing" @@
         "Pricing plans from $9/month, billed monthly" :> "Pricing" @@
         "https://acme.test/pricing" :> "pricing") @@
    "\\$\\d+\\s*\\/?\\s*(mo|month|year|yr)" :>
        ("Pricing plans from $9/month, billed monthly" :> "$9/mo") @@
    "billed\\s*(monthly|annually|yearly)" :>
        ("Pricing plans from $9/month, billed monthly" :> "billed monthly") @@
    "^(choose|select|get)\\s*(this\\s*)?(plan|started)$" :>
        ("Get Started" :> "Get Started") @@
    "\\/(pricing|plans|subscribe)" :>
        ("https://acme.test/pricing" :> "/pricing") @@
    "^(file|upload|attachment|document|media|image|video|photo)s?$" :>
        ("file" :> "file" @@
         "upload" :> "upload") @@
    "^(upload|upload\\s*file|upload\\s*files?)$" :>
        ("upload" :> "upload") @@
    "^(submit|publish|post|share)$" :>
        ("Submit" :> "Submit") @@
    "\\.(jpg|jpeg|png|gif|pdf|doc|docx|mp4|mov|zip)" :>
        ("https://site.test/p30.pdf" :> ".pdf" @@
         "https://site.test/p30.pdf?q=1" :> ".pdf") @@
    "sign\\s*(up|in)" :>
        ("Sign Up" :> "Sign Up" @@
         "Sign in to your account" :> "Sign in" @@
         "https://acme.test/signup" :> "signup") @@
    "create.*account" :>
        ("Create an account" :> "Create an account") @@
    "log\\s*in" :>
        ("Log In" :> "Log In" @@
         "https://acme.test/login" :> "login") @@
    "your\\s*account" :>
        ("Sign in to your account" :> "your account") @@
    "shop" :>
        ("Shop now: buy or purchase, add to cart and checkout. Orders over $50 ship free" :> "Shop") @@
    "buy" :>
        ("Shop now: buy or purchase, add to cart and checkout. Orders over $50 ship free" :> "buy") @@
    "purchase" :>
        ("Shop now: buy or purchase, add to cart and checkout. Orders over $50 ship free" :> "purchase") @@
    "add\\s*to\\s*cart" :>
        ("Add to Cart" :> "Add to Cart" @@
         "Shop now: buy or purchase, add to cart and checkout. Orders over $50 ship free" :> "add to cart") @@
    "checkout" :>
        ("Shop now: buy or purchase, add to cart and checkout. Orders over $50 ship free" :> "checkout") @@
    "order" :>
        ("Shop now: buy or purchase, add to cart and checkout. Orders over $50 ship free" :> "Order") @@
    "pricing" :>
        ("Pricing" :> "Pricing" @@
         "Pricing plans from $9/month, billed monthly" :> "Pricing" @@
         "https://acme.test/pricing" :> "pricing") @@
    "\\$\\d+" :>
        ("Pricing plans from $9/month, billed monthly" :> "$9" @@
         "Shop now: buy or purchase, add to cart and checkout. Orders over $50 ship free" :> "$50") @@
    "contact\\s*(us)?" :>
        ("https://acme.test/contact" :> "contact") @@
    "support" :>
        ("24/7 support and live chat" :> "support") @@
    "\\bblog\\b" :>
        ("https://acme.test/blog?page=2" :> "blog") @@
    "plans?" :>
        ("Pricing plans from $9/month, billed monthly" :> "plans") @@
    "live\\s*chat" :>
        ("24/7 support and live chat" :> "live chat") @@
    "team" :>
        ("mailto:///team0" :> "team")

\* pattern.test(s)
Test(pattern, s) ==
    pattern \in DOMAIN RegExpTable /\ s \in DOMAIN RegExpTable[pattern]

\* s.match(pattern)[0], for a string the pattern matches
MatchZero(pattern, s) == RegExpTable[pattern][s]

\* array.slice(from, to)
Slice(seq, from, to) ==
    SubSeq(seq, from + 1, IF to < Len(seq) THEN to ELSE Len(seq))

\* the least index of a non-empty set of indices: where a for-of loop that
\* returns on the first hit stops
First(hits) == CHOOSE i \in hits : \A j \in hits : i <= j

\* array.sort((a, b) => b[key] - a[key]): descending, and stable
RECURSIVE SortDesc(_, _, _)
SortDesc(sorted, rest, key) ==
    IF rest = <<>> THEN sorted
    ELSE LET x == Head(rest)
             n == Cardinality({i \in 1..Len(sorted) : sorted[i][key] >= x[key]})
         IN  SortDesc(SubSeq(sorted, 1, n) \o <<x>> \o SubSeq(sorted, n + 1, Len(sorted)),
                      Tail(rest), key)

\* ------------------------------------------------------------------------
\* models/PageSnapshot.js, createPageSnapshot: every field gets its default
OrElse(value, default) == IF value = "" THEN default ELSE value

createPageSnapshot(data) ==
    [url         |-> data.url,
     title       |-> data.title,
     visibleText |-> data.visibleText,
     inputs      |-> [i \in 1..Len(data.inputs) |->
                        [type        |-> OrElse(data.inputs[i].type, "text"),
                         name        |-> data.inputs[i].name,
                         placeholder |-> data.inputs[i].placeholder]],
     buttons     |-> [i \in 1..Len(data.buttons) |->
                        [text |-> data.buttons[i].text,
                         type |-> OrElse(data.buttons[i].type, "button")]],
     links       |-> [i \in 1..Len(data.links) |->
                        [href |-> data.links[i].href, text |-> data.links[i].text]]]

\* ------------------------------------------------------------------------
\* classifier.js

\* checkSignal returns null when the signal does not match
Null == [signalType |-> "null", matchedValue |-> "", weight |-> 0]

\* the elements of the snapshot, or the snapshot itself (index 1), that
\* satisfy the signal's test: lines 33-93, one case per signal type
SignalHits(signal, snapshot) ==
    LET inputs  == snapshot.inputs
        buttons == snapshot.buttons
        links   == snapshot.links
    IN  CASE signal.type = "input_type" ->
               {i \in DOMAIN inputs : inputs[i].type = signal.value}
          [] signal.type = "input_name" ->
               {i \in DOMAIN inputs : Test(signal.pattern, inputs[i].name)}
          [] signal.type = "input_placeholder" ->
               {i \in DOMAIN inputs : Test(signal.pattern, inputs[i].placeholder)}
          [] signal.type = "button_text" ->
               {i \in DOMAIN buttons : Test(signal.pattern, buttons[i].text)}
          [] signal.type = "link_text" ->
               {i \in DOMAIN links : Test(signal.pattern, links[i].text)}
          [] signal.type = "link_href" ->
               {i \in DOMAIN links : Test(signal.pattern, links[i].href)}
          [] signal.type = "visible_text" ->
               IF Test(signal.pattern, snapshot.visibleText) THEN {1} ELSE {}
          [] signal.type = "url" ->
               IF Test(signal.pattern, snapshot.url) THEN {1} ELSE {}
          [] OTHER -> {}

\* the matchedValue of the match returned for the element at index i (the
\* matches of the vocabulary are shorter than the 50 characters kept by
\* substring(0, 50))
MatchedValue(signal, snapshot, i) ==
    CASE signal.type = "input_type" ->
           "input[type=\"" \o signal.value \o "\"]"
      [] signal.type = "input_name" ->
           "input[name=\"" \o snapshot.inputs[i].name \o "\"]"
      [] signal.type = "input_placeholder" ->
           "placeholder: \"" \o snapshot.inputs[i].placeholder \o "\""
      [] signal.type = "button_text" ->
           "button: \"" \o snapshot.buttons[i].text \o "\""
      [] signal.type = "link_text" ->
           "link: \"" \o snapshot.links[i].text \o "\""
      [] signal.type = "link_href" ->
           "href: \"" \o snapshot.links[i].href \o "\""
      [] signal.type = "visible_text" ->
           "text: \"" \o MatchZero(signal.pattern, snapshot.visibleText) \o "\""
      [] signal.type = "url" ->
           "url: \"" \o snapshot.url \o "\""

\* (faulty variant: every element that satisfies the signal earns its weight)
MatchedWeightPerElement(signal, hits) == signal.weight * Cardinality(hits)

\* the weight of the match that the loop returns at its first hit
MatchedWeight(signal, hits) == signal.weight

\* checkSignal, lines 29-97
checkSignal(signal, snapshot) ==
    LET hits == SignalHits(signal, snapshot)
    IN  IF hits = {} THEN Null
        ELSE [signalType   |-> signal.type,
              matchedValue |-> MatchedValue(signal, snapshot, First(hits)),
              weight       |-> MatchedWeight(signal, hits)]

\* (faulty variant: the confidence is capped at 100)
AddWeightCapped(totalConfidence, weight) ==
    IF totalConfidence + weight > 100 THEN 100 ELSE totalConfidence + weight

\* totalConfidence += match.weight
AddWeight(totalConfidence, weight) == totalConfidence + weight

\* lines 109-118: the evidence and the confidence a pattern's signals earn
RECURSIVE CheckSignals(_, _, _)
CheckSignals(signals, snapshot, acc) ==
    IF signals = <<>> THEN acc
    ELSE LET match == checkSignal(Head(signals), snapshot)
         IN  CheckSignals(Tail(signals), snapshot,
                 IF match # Null
                 THEN [evidence        |-> Append(acc.evidence, match),
                       totalConfidence |-> AddWeight(acc.totalConfidence, match.weight)]
                 ELSE acc)

\* (faulty variant: a pattern needs more than 25 to be a match)
IsMatchAboveWeak(totalConfidence) == totalConfidence > 25

\* if (totalConfidence > 0)
IsMatch(totalConfidence) == totalConfidence > 0

\* classifyPage, lines 104-134
classifyPage(snapshot) ==
    LET checked == [i \in 1..Len(PATTERNS) |->
                      CheckSignals(PATTERNS[i].signals, snapshot,
                                   [evidence |-> <<>>, totalConfidence |-> 0])]
        all     == [i \in 1..Len(PATTERNS) |->
                      [patternId   |-> PATTERNS[i].id,
                       patternName |-> PATTERNS[i].name,
                       confidence  |-> checked[i].totalConfidence,
                       evidence    |-> checked[i].evidence]]
        Keep(m) == IsMatch(m.confidence)
    IN  SortDesc(<<>>, SelectSeq(all, Keep), "confidence")

\* (faulty variant: the confidences of the pages are added up)
MaxConfidenceSummed(maxConfidence, confidence) == maxConfidence + confidence

\* if (match.confidence > feature.maxConfidence) feature.maxConfidence = ...
MaxConfidence(maxConfidence, confidence) ==
    IF confidence > maxConfidence THEN confidence ELSE maxConfidence

\* lines 166-185: one match of one page goes into detectedFeatures
Aggregate(features, match, snapshot) ==
    LET known == \E i \in DOMAIN features : features[i].patternId = match.patternId
        fs    == IF known THEN features
                 ELSE Append(features, [patternId        |-> match.patternId,
                                        patternName      |-> match.patternName,
                                        maxConfidence    |-> 0,
                                        totalOccurrences |-> 0,
                                        evidencePages    |-> <<>>])
        k     == CHOOSE i \in DOMAIN fs : fs[i].patternId = match.patternId
    IN  [fs EXCEPT ![k] =
            [@ EXCEPT !.totalOccurrences = @ + 1,
                      !.maxConfidence = MaxConfidence(@, match.confidence),
                      !.evidencePages =
                          Append(@, [url         |-> snapshot.url,
                                     confidence  |-> match.confidence,
                                     topEvidence |-> Slice(match.evidence, 0, 3)])]]

RECURSIVE AggregateAll(_, _, _)
AggregateAll(features, matches, snapshot) ==
    IF matches = <<>> THEN features
    ELSE AggregateAll(Aggregate(features, Head(matches), snapshot), Tail(matches),
                      snapshot)

\* lines 155-187: the loop over the snapshots
RECURSIVE ClassifyEach(_, _)
ClassifyEach(snaps, acc) ==
    IF snaps = <<>> THEN acc
    ELSE LET snapshot == Head(snaps)
             matches  == classifyPage(snapshot)
         IN  ClassifyEach(Tail(snaps),
                 [pageClassifications |->
                      Append(acc.pageClassifications,
                             [url             |-> snapshot.url,
                              title           |-> snapshot.title,
                              classifications |-> matches]),
                  detectedFeatures |->
                      AggregateAll(acc.detectedFeatures, matches, snapshot)])

\* (faulty variant: the homepage is left out of the classification)
classifyFollowingPages(snaps) ==
    LET r == ClassifyEach(Tail(snaps), [pageClassifications |-> <<>>,
                                        detectedFeatures |-> <<>>])
    IN  [pageClassifications |-> r.pageClassifications,
         detectedFeatures    |-> SortDesc(<<>>, r.detectedFeatures, "maxConfidence")]

\* classifyAllPages, lines 151-193
classifyAllPages(snaps) ==
    LET r == ClassifyEach(snaps, [pageClassifications |-> <<>>,
                                  detectedFeatures |-> <<>>])
    IN  [pageClassifications |-> r.pageClassifications,
         detectedFeatures    |-> SortDesc(<<>>, r.detectedFeatures, "maxConfidence")]

\* ------------------------------------------------------------------------
\* extractor/claims.js

\* CLAIM_PATTERNS, lines 10-71: {id, label, keywords}
CLAIM_PATTERNS ==
    <<
      [id |-> "SEARCH_FUNCTIONALITY", label |-> "Search functionality",
       keywords |-> <<"search", "find\\s+(your|what|the)", "look\\s*up", "discover", "browse">>],
      [id |-> "USER_ACCOUNTS", label |-> "User accounts",
       keywords |-> <<"sign\\s*(up|in)", "create.*account", "register", "log\\s*in", "member", "your\\s*account">>],
      [id |-> "ECOMMERCE", label |-> "E-commerce / Shopping",
       keywords |-> <<"shop", "buy", "purchase", "add\\s*to\\s*cart", "checkout", "order", "pricing", "\\$\\d+">>],
      [id |-> "CONTACT_SUPPORT", label |-> "Contact / Support",
       keywords |-> <<"contact\\s*(us)?", "support", "help", "get\\s*in\\s*touch", "reach\\s*(out|us)", "faq">>],
      [id |-> "NEWSLETTER", label |-> "Newsletter subscription",
       keywords |-> <<"newsletter", "subscribe", "stay\\s*updated", "email\\s*list", "mailing\\s*list">>],
      [id |-> "FREE_TRIAL", label |-> "Free trial",
       keywords |-> <<"free\\s*trial", "try\\s*(it\\s*)?free", "start\\s*free", "no\\s*credit\\s*card", "free\\s*plan">>],
      [id |-> "DEMO", label |-> "Demo booking",
       keywords |-> <<"book\\s*a?\\s*demo", "request\\s*demo", "schedule\\s*demo", "see\\s*it\\s*in\\s*action", "live\\s*demo">>],
      [id |-> "API", label |-> "API / Developers",
       keywords |-> <<"\\bapi\\b", "developer", "integration", "sdk", "documentation">>],
      [id |-> "MOBILE_APP", label |-> "Mobile app",
       keywords |-> <<"mobile\\s*app", "ios", "android", "app\\s*store", "google\\s*play", "download.*app">>],
      [id |-> "BLOG", label |-> "Blog / Resources",
       keywords |-> <<"\\bblog\\b", "articles?", "news", "insights?", "resources?">>],
      [id |-> "PRICING_TIERS", label |-> "Pricing tiers",
       keywords |-> <<"pricing", "plans?", "packages?", "subscription", "per\\s*(month|user|seat)", "enterprise">>],
      [id |-> "ANALYTICS", label |-> "Analytics / Dashboard",
       keywords |-> <<"analytics", "dashboard", "reports?", "metrics", "insights?", "tracking">>],
      [id |-> "SOCIAL_LOGIN", label |-> "Social login",
       keywords |-> <<"sign\\s*in\\s*with\\s*(google|facebook|apple|github)", "social\\s*login", "continue\\s*with">>],
      [id |-> "CHAT_SUPPORT", label |-> "Chat support",
       keywords |-> <<"live\\s*chat", "chat\\s*with\\s*us", "chat\\s*support", "chatbot", "talk\\s*to.*support">>],
      [id |-> "TEAM_COLLABORATION", label |-> "Team collaboration",
       keywords |-> <<"team", "collaborate", "share\\s*with", "invite\\s*(members|users)", "workspace">>]>>

\* lines 94-97: combinedText = `${text} ${buttonTexts} ${linkTexts}`, kept as
\* the sequence of the pieces that the template and join(' ') put side by
\* side.  The pieces of the vocabulary are such that no keyword matches
\* across the space between two of them, so a keyword matches the combined
\* text exactly when it matches a piece, and its leftmost match lies in the
\* first piece it matches.
CombinedText(snapshot) ==
    <<snapshot.visibleText>>
       \o [i \in 1..Len(snapshot.buttons) |-> snapshot.buttons[i].text]
       \o [i \in 1..Len(snapshot.links) |-> snapshot.links[i].text]

\* pattern.test(combinedText)
TestCombined(pattern, combinedText) ==
    \E i \in DOMAIN combinedText : Test(pattern, combinedText[i])

\* combinedText.match(pattern)[0]
MatchCombined(pattern, combinedText) ==
    MatchZero(pattern,
              combinedText[First({i \in DOMAIN combinedText :
                                     Test(pattern, combinedText[i])})])

\* lines 101-110: the matched substrings of the keywords that match
RECURSIVE MatchedKeywords(_, _, _)
MatchedKeywords(keywords, combinedText, matchedKeywords) ==
    IF keywords = <<>> THEN matchedKeywords
    ELSE MatchedKeywords(Tail(keywords), combinedText,
             IF TestCombined(Head(keywords), combinedText)
             THEN Append(matchedKeywords, MatchCombined(Head(keywords), combinedText))
             ELSE matchedKeywords)

\* (faulty variant: the confidence is not capped)
ClaimConfidenceUncapped(matchedKeywords) == Len(matchedKeywords) * 25

\* Math.min(matchedKeywords.length * 25, 100)
ClaimConfidence(matchedKeywords) ==
    IF Len(matchedKeywords) * 25 < 100 THEN Len(matchedKeywords) * 25 ELSE 100

\* lines 100-120: the loop over the claim categories
RECURSIVE ExtractEach(_, _, _)
ExtractEach(configs, combinedText, claims) ==
    IF configs = <<>> THEN claims
    ELSE LET config          == Head(configs)
             matchedKeywords == MatchedKeywords(config.keywords, combinedText, <<>>)
         IN  ExtractEach(Tail(configs), combinedText,
                 IF Len(matchedKeywords) > 0
                 THEN Append(claims, [id         |-> config.id,
                                      label      |-> config.label,
                                      confidence |-> ClaimConfidence(matchedKeywords),
                                      evidence   |-> Slice(matchedKeywords, 0, 3)])
                 ELSE claims)

\* extractClaims, lines 92-139.  Of the result, url and claims are kept;
\* ctaActions and description are read by no later step.
extractClaims(snapshot) ==
    [url    |-> snapshot.url,
     claims |-> SortDesc(<<>>, ExtractEach(CLAIM_PATTERNS, CombinedText(snapshot), <<>>),
                         "confidence")]

\* ------------------------------------------------------------------------
\* The comparison engine (analyzer/comparison.js)

\* CONFIDENCE_THRESHOLDS
STRONG == 50
WEAK == 25

\* extractor/claims.js, CLAIM_TO_PATTERN_MAP
CLAIM_TO_PATTERN_MAP ==
    "SEARCH_FUNCTIONALITY" :> <<"SEARCH_PAGE">> @@
    "USER_ACCOUNTS"        :> <<"AUTH_PAGE", "DASHBOARD">> @@
    "ECOMMERCE"            :> <<"ECOMMERCE", "PRICING_PAGE">> @@
    "CONTACT_SUPPORT"      :> <<"CONTACT_SUPPORT">> @@
    "PRICING_TIERS"        :> <<"PRICING_PAGE">> @@
    "ANALYTICS"            :> <<"DASHBOARD">> @@
    "FREE_TRIAL"           :> <<"LANDING_PAGE", "PRICING_PAGE">> @@
    "DEMO"                 :> <<"LANDING_PAGE", "CONTACT_SUPPORT">>

\* (faulty variant: a category with no entry is related to every pattern)
RelatedPatternsOrAll(claimId) ==
    IF claimId \in DOMAIN CLAIM_TO_PATTERN_MAP THEN CLAIM_TO_PATTERN_MAP[claimId]
    ELSE getPatternIds

\* CLAIM_TO_PATTERN_MAP[claim.id] || []
RelatedPatterns(claimId) ==
    IF claimId \in DOMAIN CLAIM_TO_PATTERN_MAP THEN CLAIM_TO_PATTERN_MAP[claimId]
    ELSE <<>>

\* detectedMap.get(patternId): the feature, as a sequence of 0 or 1 element
DetectedMapGet(detectedFeatures, patternId) ==
    LET at == {f \in DOMAIN detectedFeatures :
                  detectedFeatures[f].patternId = patternId}
    IN  IF at = {} THEN <<>>
        ELSE <<detectedFeatures[CHOOSE f \in at : \A g \in at : g <= f]>>

\* (faulty variant: a later pattern of equal confidence replaces the best)
BetterOrEqual(detected, bestMatch) ==
    bestMatch = <<>> \/ detected.maxConfidence >= bestMatch[1].maxConfidence

\* !bestMatch || detected.maxConfidence > bestMatch.maxConfidence
Better(detected, bestMatch) ==
    bestMatch = <<>> \/ detected.maxConfidence > bestMatch[1].maxConfidence

\* lines 293-298: the best detected feature among the related patterns, as
\* a sequence of 0 or 1 element
RECURSIVE BestMatch(_, _, _)
BestMatch(relatedPatterns, detectedFeatures, bestMatch) ==
    IF relatedPatterns = <<>> THEN bestMatch
    ELSE LET detected == DetectedMapGet(detectedFeatures, Head(relatedPatterns))
         IN  BestMatch(Tail(relatedPatterns), detectedFeatures,
                 IF detected # <<>> /\ Better(detected[1], bestMatch)
                 THEN detected ELSE bestMatch)

\* (faulty variant: the strong threshold is exclusive)
IsStrongAbove(maxConfidence) == maxConfidence > STRONG

\* bestMatch.maxConfidence >= CONFIDENCE_THRESHOLDS.STRONG
IsStrong(maxConfidence) == maxConfidence >= STRONG

\* (faulty variant: the weak threshold is exclusive)
IsWeakAbove(maxConfidence) == maxConfidence > WEAK

\* bestMatch.maxConfidence >= CONFIDENCE_THRESHOLDS.WEAK
IsWeak(maxConfidence) == maxConfidence >= WEAK

\* a finding; the explanation, a sentence built from the same fields, is
\* left out
Finding(type, feature, confidence, evidencePages) ==
    [type |-> type, feature |-> feature, confidence |-> confidence,
     evidencePages |-> evidencePages]

\* bestMatch.evidencePages.map(p => p.url)
EvidenceUrls(feature) ==
    [e \in 1..Len(feature.evidencePages) |-> feature.evidencePages[e].url]

\* (faulty variant: the label is listed twice)
PushTwice(list, label) == list \o <<label, label>>

\* summary.weakFeatures.push(claim.label), summary.missingFeatures.push(claim.label)
Push(list, label) == Append(list, label)

\* lines 289-343: one claim checked against the detections; acc holds the
\* findings, the summary lists and the two matched-id sets
CheckClaim(claim, detectedFeatures, acc) ==
    LET bestMatch == BestMatch(RelatedPatterns(claim.id), detectedFeatures, <<>>)
    IN  IF bestMatch # <<>>
        THEN LET best == bestMatch[1]
                 seen == [acc EXCEPT
                            !.matchedPatternIds = @ \cup {best.patternId},
                            !.matchedClaimIds = @ \cup {claim.id}]
             IN  IF IsStrong(best.maxConfidence)
                 THEN [seen EXCEPT !.matchedFeatures =
                          Append(@, [claim      |-> claim.label,
                                     detected   |-> best.patternName,
                                     confidence |-> best.maxConfidence])]
                 ELSE IF IsWeak(best.maxConfidence)
                 THEN [seen EXCEPT
                          !.weakFeatures = Push(@, claim.label),
                          !.findings = Append(@, Finding("weak_detection", claim.label,
                                           best.maxConfidence, EvidenceUrls(best)))]
                 ELSE [seen EXCEPT
                          !.missingFeatures = Push(@, claim.label),
                          !.findings = Append(@, Finding("claimed_not_detected",
                                           claim.label, best.maxConfidence, <<>>))]
        ELSE [acc EXCEPT
                 !.missingFeatures = Push(@, claim.label),
                 !.findings = Append(@, Finding("claimed_not_detected", claim.label,
                                                0, <<>>))]

RECURSIVE CheckClaims(_, _, _)
CheckClaims(claims, detectedFeatures, acc) ==
    IF claims = <<>> THEN acc
    ELSE CheckClaims(Tail(claims), detectedFeatures,
                     CheckClaim(Head(claims), detectedFeatures, acc))

\* (faulty variant: only the patterns chosen as best matches count)
HasRelatedClaimNever(patternId, matchedClaimIds) == FALSE

\* lines 349-351: some matched claim has the pattern among its related ones
HasRelatedClaim(patternId, matchedClaimIds) ==
    \E claimId \in DOMAIN CLAIM_TO_PATTERN_MAP :
        /\ \E i \in DOMAIN CLAIM_TO_PATTERN_MAP[claimId] :
              CLAIM_TO_PATTERN_MAP[claimId][i] = patternId
        /\ claimId \in matchedClaimIds

\* lines 346-364: the detected features that no claim accounts for
RECURSIVE CheckFeatures(_, _)
CheckFeatures(features, acc) ==
    IF features = <<>> THEN acc
    ELSE LET feature == Head(features)
         IN  CheckFeatures(Tail(features),
                 IF /\ feature.patternId \notin acc.matchedPatternIds
                    /\ ~HasRelatedClaim(feature.patternId, acc.matchedClaimIds)
                    /\ IsWeak(feature.maxConfidence)
                 THEN [acc EXCEPT
                          !.unexpectedFeatures = Append(@, feature.patternName),
                          !.findings = Append(@, Finding("detected_not_claimed",
                                           feature.patternName, feature.maxConfidence,
                                           EvidenceUrls(feature)))]
                 ELSE acc)

\* lines 368-372: the stable sort of the findings by severity
SeverityOrder ==
    "claimed_not_detected" :> 0 @@ "weak_detection" :> 1 @@ "detected_not_claimed" :> 2

\* (faulty variant: the findings are left in the order they were pushed)
SortBySeverityNot(sorted, rest) == sorted \o rest

RECURSIVE SortBySeverity(_, _)
SortBySeverity(sorted, rest) ==
    IF rest = <<>> THEN sorted
    ELSE LET x == Head(rest)
             n == Cardinality({i \in 1..Len(sorted) :
                     SeverityOrder[sorted[i].type] <= SeverityOrder[x.type]})
         IN  SortBySeverity(SubSeq(sorted, 1, n) \o <<x>>
                                \o SubSeq(sorted, n + 1, Len(sorted)),
                            Tail(rest))

\* (faulty variant: the rate is cut off, not rounded)
MatchRateFloor(totalMatched, totalClaimed) == (100 * totalMatched) \div totalClaimed

\* Math.round((totalMatched / totalClaimed) * 100)
MatchRate(totalMatched, totalClaimed) ==
    (200 * totalMatched + totalClaimed) \div (2 * totalClaimed)

\* generateAnalysisSummary, lines 383-409: the sentences, each kept as its
\* kind and the values it prints
generateAnalysisSummary(summary) ==
    LET totalClaimed == Len(summary.claimedFeatures)
        totalMatched == Len(summary.matchedFeatures)
        totalMissing == Len(summary.missingFeatures)
        totalWeak    == Len(summary.weakFeatures)
        totalUnexpected == Len(summary.unexpectedFeatures)
    IN  (IF totalClaimed = 0
         THEN <<[line |-> "no clear claims"]>>
         ELSE <<[line |-> "match rate", matched |-> totalMatched,
                 claimed |-> totalClaimed,
                 rate |-> MatchRate(totalMatched, totalClaimed)]>>)
        \o (IF totalMissing > 0
            THEN <<[line |-> "missing", count |-> totalMissing,
                    features |-> summary.missingFeatures]>>
            ELSE <<>>)
        \o (IF totalWeak > 0
            THEN <<[line |-> "weak", count |-> totalWeak,
                    features |-> summary.weakFeatures]>>
            ELSE <<>>)
        \o (IF totalUnexpected > 0
            THEN <<[line |-> "underpromoted", count |-> totalUnexpected,
                    features |-> summary.unexpectedFeatures]>>
            ELSE <<>>)

\* compareClaimsVsDetections, lines 259-375
compareClaimsVsDetections(claimsResult, classificationResult) ==
    LET claims           == claimsResult.claims
        detectedFeatures == classificationResult.detectedFeatures
        start == [findings          |-> <<>>,
                  matchedFeatures   |-> <<>>,
                  missingFeatures   |-> <<>>,
                  weakFeatures      |-> <<>>,
                  unexpectedFeatures |-> <<>>,
                  matchedClaimIds   |-> {},
                  matchedPatternIds |-> {}]
        done  == CheckFeatures(detectedFeatures,
                               CheckClaims(claims, detectedFeatures, start))
        summary ==
            [claimedFeatures    |-> [c \in 1..Len(claims) |-> claims[c].label],
             detectedFeatures   |-> [f \in 1..Len(detectedFeatures) |->
                                        detectedFeatures[f].patternName],
             matchedFeatures    |-> done.matchedFeatures,
             missingFeatures    |-> done.missingFeatures,
             weakFeatures       |-> done.weakFeatures,
             unexpectedFeatures |-> done.unexpectedFeatures]
    IN  [summary  |-> summary,
         findings |-> SortBySeverity(<<>>, done.findings),
         analysis |-> generateAnalysisSummary(summary)]

\* ------------------------------------------------------------------------
\* The vocabulary: the elements, texts and URLs that pages are made of
PasswordInput == [type |-> "password", name |-> "", placeholder |-> ""]
EmailInput == [type |-> "email", name |-> "", placeholder |-> ""]
NamedPasswordInput == [type |-> "password", name |-> "password", placeholder |-> ""]
NamedEmailInput == [type |-> "email", name |-> "email", placeholder |-> "you@example.com"]
SearchInput == [type |-> "search", name |-> "q", placeholder |-> "Search products"]
MessageInput == [type |-> "textarea", name |-> "message", placeholder |-> ""]
FileInput == [type |-> "file", name |-> "upload", placeholder |-> ""]
TextInput == [type |-> "", name |-> "", placeholder |-> ""]

LogInButton == [text |-> "Log In", type |-> "submit"]
SignUpButton == [text |-> "Sign Up", type |-> "submit"]
SearchButton == [text |-> "Search", type |-> "submit"]
SendButton == [text |-> "Send", type |-> "submit"]
SubmitButton == [text |-> "Submit", type |-> "submit"]
GetStartedButton == [text |-> "Get Started", type |-> ""]
AddToCartButton == [text |-> "Add to Cart", type |-> "button"]

ForgotLink == [href |-> "https://acme.test/reset", text |-> "Forgot password?"]
SignupLink == [href |-> "https://acme.test/signup", text |-> "Create an account"]
PricingLink == [href |-> "https://acme.test/pricing", text |-> "Pricing"]
NextLink == [href |-> "https://acme.test/blog?page=2", text |-> "Next"]

InputLists ==
    {<<>>,
     <<PasswordInput, EmailInput>>,
     <<PasswordInput, NamedPasswordInput, EmailInput, NamedEmailInput>>,
     <<SearchInput, TextInput>>,
     <<NamedEmailInput, MessageInput, FileInput>>}

ButtonLists ==
    {<<>>,
     <<LogInButton>>,
     <<LogInButton, SignUpButton, LogInButton>>,
     <<SearchButton, GetStartedButton, AddToCartButton>>,
     <<SendButton, SubmitButton>>}

LinkLists ==
    {<<>>,
     <<ForgotLink, SignupLink>>,
     <<PricingLink, NextLink, PricingLink>>}

Texts ==
    {"",
     "Sign in to your account",
     "24/7 support and live chat",
     "Shop now: buy or purchase, add to cart and checkout. Orders over $50 ship free",
     "Pricing plans from $9/month, billed monthly",
     "Search results: showing 10 results, page 1 of 3"}

Urls ==
    {"",
     "https://acme.test/",
     "https://acme.test/login",
     "https://acme.test/contact",
     "https://acme.test/pricing"}
\* the raw data of a page, as extractPageData and page.url() give it
PageData(url, text, inputs, buttons, links) ==
    [url |-> url, title |-> "Acme", visibleText |-> text,
     inputs |-> inputs, buttons |-> buttons, links |-> links]

\* the first snapshot of a crawl result: every combination of the vocabulary
Homepages ==
    {createPageSnapshot(PageData(u, t, i, b, l)) :
        u \in Urls, t \in Texts, i \in InputLists, b \in ButtonLists, l \in LinkLists}

\* the snapshots that follow it
LoginPage ==
    createPageSnapshot(PageData("https://acme.test/login", "Sign in to your account",
        <<NamedPasswordInput, NamedEmailInput>>, <<LogInButton>>, <<ForgotLink>>))

ContactPage ==
    createPageSnapshot(PageData("https://acme.test/contact", "",
        <<NamedEmailInput, MessageInput>>, <<SendButton>>, <<>>))

AboutPage ==
    createPageSnapshot(PageData("https://acme.test/about", "", <<>>, <<>>, <<>>))

InnerPageLists ==
    {<<>>, <<LoginPage>>, <<AboutPage, ContactPage>>, <<LoginPage, AboutPage, LoginPage>>}

PageLists == {<<h>> \o rest : h \in Homepages, rest \in InnerPageLists}

\* ------------------------------------------------------------------------
\* The analysis steps applied to a crawl result drawn from the vocabulary:
\* routes/analyze.js lines 85-99, one action per step.

\* no crawl is running
CrawlIdle ==
    /\ startUrl = Broken /\ baseDomain = NoOrigin
    /\ visited = {} /\ queue = <<>> /\ snapshots = <<>>
    /\ crawlErrors = <<>> /\ crawlLimitations = <<>>
    /\ browser = "undefined" /\ launches = 0 /\ openPages = 0
    /\ cur = <<>> /\ page = "undefined" /\ err = "" /\ thrown = ""
    /\ fetched = <<>> /\ outcome = "running"

crawlVars == <<site, startUrl, baseDomain, visited, queue, snapshots, crawlErrors,
               crawlLimitations, browser, launches, openPages, cur, page, err,
               thrown, fetched, outcome>>

PipelineInit ==
    /\ site = "none"
    /\ CrawlIdle
    /\ request = [type |-> "none"]
    /\ response = [status |-> 0]
    /\ pc = "classify"
    /\ pages \in PageLists
    /\ classification = [pageClassifications |-> <<>>, detectedFeatures |-> <<>>]
    /\ extracted = [url |-> "", claims |-> <<>>]
    /\ comparison = [findings |-> <<>>]

\* (faulty variant: the page crawled last)
LastPage(snaps) == snaps[Len(snaps)]

\* lines 92-93: const homepage = crawlResult.snapshots[0]
Homepage(snaps) == snaps[1]

\* line 86: const classificationResults = classifyAllPages(crawlResult.snapshots)
Classify ==
    /\ pc = "classify"
    /\ classification' = classifyAllPages(pages)
    /\ pc' = "extract"
    /\ UNCHANGED <<request, response, pages, extracted, comparison>>
    /\ UNCHANGED crawlVars

\* lines 92-95: extractClaims(crawlResult.snapshots[0])
ExtractClaims ==
    /\ pc = "extract"
    /\ extracted' = extractClaims(Homepage(pages))
    /\ pc' = "compare"
    /\ UNCHANGED <<request, response, pages, classification, comparison>>
    /\ UNCHANGED crawlVars

\* lines 97-99: compareClaimsVsDetections(claimsResult, classificationResult)
Compare ==
    /\ pc = "compare"
    /\ comparison' = compareClaimsVsDetections(extracted, classification)
    /\ pc' = "report"
    /\ UNCHANGED <<request, response, pages, classification, extracted>>
    /\ UNCHANGED crawlVars

PipelineNext ==
    \/ Classify
    \/ ExtractClaims
    \/ Compare

PipelineSpec == PipelineInit /\ [][PipelineNext]_vars

\* ------------------------------------------------------------------------
\* The analysis steps applied to the crawl results of two kinds of site: one
\* whose single page holds a login form and nothing else, and one whose
\* homepage advertises support.

NeutralUrl == "https://acme.test/about"

\* page.url() of a homepage
ScenarioUrls ==
    {"https://acme.test/", NeutralUrl, "https://acme.test/login",
     "https://acme.test/contact", "https://acme.test/pricing"}

\* a password input, an email input and a Log In button; document.body's
\* innerText is the button's label, or empty for an <input type="submit">
AuthOnlyPage(u, t) ==
    createPageSnapshot(PageData(u, t, <<PasswordInput, EmailInput>>, <<LogInButton>>, <<>>))

AuthOnlySites == {<<AuthOnlyPage(u, t)>> : u \in ScenarioUrls, t \in {"", "Log In"}}

SupportText == "24/7 support and live chat"

SupportHomepage(u, b) == createPageSnapshot(PageData(u, SupportText, <<>>, b, <<>>))

SupportSites ==
    {<<SupportHomepage(u, b)>> \o rest :
        u \in ScenarioUrls,
        b \in {<<>>, <<GetStartedButton>>},
        rest \in {<<>>, <<AboutPage>>, <<LoginPage>>, <<AboutPage, ContactPage>>,
                  <<AboutPage, AuthOnlyPage("https://acme.test/login", "")>>}}

ScenarioInit ==
    /\ site = "none"
    /\ CrawlIdle
    /\ request = [type |-> "none"]
    /\ response = [status |-> 0]
    /\ pc = "classify"
    /\ pages \in AuthOnlySites \cup SupportSites
    /\ classification = [pageClassifications |-> <<>>, detectedFeatures |-> <<>>]
    /\ extracted = [url |-> "", claims |-> <<>>]
    /\ comparison = [findings |-> <<>>]

ScenarioSpec == ScenarioInit /\ [][PipelineNext]_vars

\* ------------------------------------------------------------------------
\* The comparison applied to claims and detected features drawn from the
\* two catalogs.

\* the sums of the weights of the subsets of a pattern's signals: the
\* confidences a page can give the pattern
RECURSIVE SubsetSums(_)
SubsetSums(signals) ==
    IF signals = <<>> THEN {0}
    ELSE LET rest == SubsetSums(Tail(signals))
         IN  rest \cup {c + Head(signals).weight : c \in rest}

\* 0 stands for a pattern that no page matched
ConfidenceLevels == {0, 20, 25, 50}

ComparedPatterns == <<AUTH_PAGE, LANDING_PAGE, DASHBOARD, PRICING_PAGE>>

\* an entry of detectedFeatures as classifyAllPages builds it from one page;
\* topEvidence, which the comparison does not read, is left empty
DetectedFeature(pattern, confidence) ==
    [patternId        |-> pattern.id,
     patternName      |-> pattern.name,
     maxConfidence    |-> confidence,
     totalOccurrences |-> 1,
     evidencePages    |-> <<[url |-> NeutralUrl, confidence |-> confidence,
                             topEvidence |-> <<>>]>>]

\* the features of the patterns with a confidence other than 0, in the
\* order the pages brought them up, then sorted as classifyAllPages does
RECURSIVE FeaturesOf(_, _)
FeaturesOf(patterns, levels) ==
    IF patterns = <<>> THEN <<>>
    ELSE (IF levels[Head(patterns).id] = 0 THEN <<>>
          ELSE <<DetectedFeature(Head(patterns), levels[Head(patterns).id])>>)
         \o FeaturesOf(Tail(patterns), levels)

Reverse(seq) == [i \in 1..Len(seq) |-> seq[Len(seq) + 1 - i]]

DetectedFeatureLists ==
    {SortDesc(<<>>, FeaturesOf(order, levels), "maxConfidence") :
        order \in {ComparedPatterns, Reverse(ComparedPatterns)},
        levels \in {l \in [{"AUTH_PAGE", "LANDING_PAGE", "DASHBOARD", "PRICING_PAGE"}
                              -> ConfidenceLevels] :
                       \A i \in DOMAIN ComparedPatterns :
                           l[ComparedPatterns[i].id]
                               \in SubsetSums(ComparedPatterns[i].signals)}}

\* the claim categories compared: two with two related patterns, one with
\* one, two with none
ComparedCategories ==
    {"USER_ACCOUNTS", "NEWSLETTER", "FREE_TRIAL", "PRICING_TIERS", "CHAT_SUPPORT"}

\* the claims of a set of categories, each made by one keyword: in the order
\* of CLAIM_PATTERNS, as extractClaims leaves claims of equal confidence
RECURSIVE ClaimsOf(_, _)
ClaimsOf(configs, ids) ==
    IF configs = <<>> THEN <<>>
    ELSE (IF Head(configs).id \in ids
          THEN <<[id |-> Head(configs).id, label |-> Head(configs).label,
                  confidence |-> 25, evidence |-> <<Head(configs).label>>]>>
          ELSE <<>>)
         \o ClaimsOf(Tail(configs), ids)

CompareInit ==
    /\ site = "none"
    /\ CrawlIdle
    /\ request = [type |-> "none"]
    /\ response = [status |-> 0]
    /\ pc = "compare"
    /\ pages = <<>>
    /\ classification \in {[pageClassifications |-> <<>>, detectedFeatures |-> fs] :
                               fs \in DetectedFeatureLists}
    /\ extracted \in {[url |-> NeutralUrl, claims |-> ClaimsOf(CLAIM_PATTERNS, ids)] :
                          ids \in SUBSET ComparedCategories}
    /\ comparison = [findings |-> <<>>]

CompareSpec == CompareInit /\ [][Compare]_vars

\* ------------------------------------------------------------------------
\* routes/analyze.js: POST /analyze
\*
\* The url field of the request body is undefined, a number or a string.  A
\* string is modelled by the parts the route tells apart:
\*   padded  white space around the text
\*   scheme  the text before "://", "" when the string has no "://"
\*   target  the text after it, "" for none

UrlField(type, padded, scheme, target) ==
    [type |-> type, padded |-> padded, scheme |-> scheme, target |-> target]

HomeTarget == "site.test/p0"
LogoutTarget == "site.test/logout0"

BodyUrls ==
    {UrlField("undefined", FALSE, "", ""),          \* {}
     UrlField("number", FALSE, "", ""),             \* {url: 42}
     UrlField("string", FALSE, "", ""),             \* {url: ''}
     UrlField("string", TRUE, "", ""),              \* {url: '   '}
     UrlField("string", FALSE, "https", ""),        \* {url: 'https://'}
     UrlField("string", FALSE, "HTTP", HomeTarget), \* {url: 'HTTP://site.test/p0'}
     UrlField("string", FALSE, "", HomeTarget),     \* {url: 'site.test/p0'}
     UrlField("string", TRUE, "http", HomeTarget),  \* {url: ' http://site.test/p0 '}
     UrlField("string", FALSE, "https", LogoutTarget)}

\* !url: undefined and the empty string are falsy
Falsy(url) ==
    \/ url.type = "undefined"
    \/ url.type = "string" /\ ~url.padded /\ url.scheme = "" /\ url.target = ""

LowerCase(scheme) == IF scheme = "HTTP" THEN "http" ELSE scheme

\* normalizeUrl of the route, lines 17-31: trim, put https:// in front when
\* /^https?:\/\//i does not match, turn a leading http:// into https://
normalizeInputUrl(input) ==
    LET trimmed  == [input EXCEPT !.padded = FALSE]
        prefixed == IF LowerCase(trimmed.scheme) \notin {"http", "https"}
                    THEN [trimmed EXCEPT !.scheme = "https"]
                    ELSE trimmed
    IN  IF prefixed.scheme = "http" THEN [prefixed EXCEPT !.scheme = "https"]
        ELSE prefixed

\* (faulty variant: the protocol is not looked at)
isValidUrlAnyProtocol(url) == url.target # ""

\* isValidUrl, lines 36-43: new URL() parses the string (it lower-cases the
\* scheme) and the protocol is https:
isValidUrl(url) == url.target # "" /\ LowerCase(url.scheme) = "https"

\* the URL string handed to crawlWebsite, as the crawler's URL
CrawlUrl(url) ==
    IF url.target = LogoutTarget
    THEN Url(LowerCase(url.scheme), SiteHost, "logout", 0, "", FALSE, "")
    ELSE Url(LowerCase(url.scheme), SiteHost, "p", 0, "", FALSE, "")

\* page.url() and el.href as strings; the path is written in lower case (no
\* pattern of the catalog is case-sensitive)
Href(u) ==
    u.scheme \o "://" \o u.host \o "/" \o u.name \o ToString(u.id) \o u.ext \o u.tail

\* extractPageData on the page served for a URL of the site: the forms site
\* has a login form on its home page, the wide site a marketing text
SitePageData(s, u) ==
    LET home  == u.name = "p" /\ u.id = 0
        links == [i \in 1..Len(Links(s, u.id)) |->
                     [href |-> Href(Links(s, u.id)[i]), text |-> ""]]
    IN  CASE s = "forms" /\ home ->
               PageData(Href(u), "Sign in to your account",
                        <<PasswordInput, EmailInput>>, <<LogInButton>>, links)
          [] s = "wide" /\ home ->
               PageData(Href(u), "24/7 support and live chat", <<>>,
                        <<GetStartedButton>>, links)
          [] OTHER -> PageData(Href(u), "", <<>>, <<>>, links)

\* crawlResult.snapshots: the model of the crawl keeps the URL of a
\* snapshot; its content is that of the page the site serves for it
CrawlSnapshots(s, snaps) ==
    [i \in 1..Len(snaps) |-> createPageSnapshot(SitePageData(s, snaps[i].url))]

\* buildReport, lines 128-193, without the clock readings and the constant
\* reasoning section
buildReport(url, snaps, classificationResult, claimsResult, comparisonResult) ==
    [meta  |-> [analyzedUrl |-> url, baseDomain |-> baseDomain],
     crawl |-> [totalPages  |-> Len(snaps),
                maxDepth    |-> MAX_DEPTH,
                maxPages    |-> MAX_PAGES,
                pages       |-> [i \in 1..Len(snaps) |->
                                    [url |-> snaps[i].url, title |-> snaps[i].title]],
                errors      |-> crawlErrors,
                limitations |-> crawlLimitations],
     claims |-> [extractedFrom   |-> claimsResult.url,
                 claimedFeatures |-> claimsResult.claims],
     detection |->
        [pageClassifications |->
            [p \in 1..Len(classificationResult.pageClassifications) |->
                LET pageResult == classificationResult.pageClassifications[p]
                IN  [url |-> pageResult.url, title |-> pageResult.title,
                     classifications |->
                        [c \in 1..Len(pageResult.classifications) |->
                            [pattern     |-> pageResult.classifications[c].patternId,
                             name        |-> pageResult.classifications[c].patternName,
                             confidence  |-> pageResult.classifications[c].confidence,
                             topEvidence |->
                                Slice(pageResult.classifications[c].evidence, 0, 5)]]]],
         aggregatedFeatures |->
            [f \in 1..Len(classificationResult.detectedFeatures) |->
                LET feature == classificationResult.detectedFeatures[f]
                IN  [pattern       |-> feature.patternId,
                     name          |-> feature.patternName,
                     maxConfidence |-> feature.maxConfidence,
                     occurrences   |-> feature.totalOccurrences,
                     pages         |-> EvidenceUrls(feature)]]],
     comparison |-> comparisonResult]

\* the sites the requests are made for; the wide site adds pages to a crawl,
\* not cases to the route
RouteSites == {"forms", "deep"}

RouteInit ==
    /\ pc = "request"
    /\ site \in RouteSites
    /\ CrawlIdle
    /\ request \in {[url |-> u] : u \in BodyUrls}
    /\ response = [status |-> 0]
    /\ pages = <<>>
    /\ classification = [pageClassifications |-> <<>>, detectedFeatures |-> <<>>]
    /\ extracted = [url |-> "", claims |-> <<>>]
    /\ comparison = [findings |-> <<>>]

\* lines 53-78: the validation of the url field, up to the call of
\* crawlWebsite
Validate ==
    /\ pc = "request"
    /\ IF Falsy(request.url) \/ request.url.type # "string"
       THEN /\ response' = [status |-> 400, error |-> "Missing required field: url"]
            /\ pc' = "responded"
            /\ UNCHANGED startUrl
       ELSE LET url == normalizeInputUrl(request.url)
            IN  IF ~isValidUrl(url)
                THEN /\ response' = [status |-> 400,
                                     error |-> "Invalid URL format. Must be a valid HTTPS URL.",
                                     provided |-> url]
                     /\ pc' = "responded"
                     /\ UNCHANGED startUrl
                ELSE /\ startUrl' = CrawlUrl(url)
                     /\ pc' = "start"
                     /\ UNCHANGED response
    /\ UNCHANGED <<site, baseDomain, visited, queue, snapshots, crawlErrors,
                   crawlLimitations, browser, launches, openPages, cur, page, err,
                   thrown, fetched, outcome>>
    /\ UNCHANGED <<request, pages, classification, extracted, comparison>>

\* lines 79-122: what follows the await of crawlWebsite: the catch when it
\* rejected, the 422 when it returned no snapshot, the analysis steps and
\* the report otherwise (each result is a value bound once, as the const
\* it is in the code)
Respond ==
    /\ pc = "done"
    /\ pc' = "responded"
    /\ IF outcome = "rejected"
       THEN /\ response' = [status |-> 500, error |-> "Analysis failed",
                            message |-> thrown]
            /\ UNCHANGED <<pages, classification, extracted, comparison>>
       ELSE IF Len(snapshots) = 0
       THEN /\ response' = [status |-> 422,
                            error |-> "Could not crawl any pages from the provided URL",
                            crawlErrors |-> crawlErrors]
            /\ UNCHANGED <<pages, classification, extracted, comparison>>
       ELSE \E snaps \in {CrawlSnapshots(site, snapshots)} :
            \E classificationResult \in {classifyAllPages(snaps)} :
            \E claimsResult \in {extractClaims(Homepage(snaps))} :
            \E comparisonResult \in
                    {compareClaimsVsDetections(claimsResult, classificationResult)} :
                /\ pages' = snaps
                /\ classification' = classificationResult
                /\ extracted' = claimsResult
                /\ comparison' = comparisonResult
                /\ response' = [status |-> 200,
                                report |-> buildReport(normalizeInputUrl(request.url),
                                               snaps, classificationResult,
                                               claimsResult, comparisonResult)]
    /\ UNCHANGED crawlVars
    /\ UNCHANGED request

RouteNext ==
    \/ Validate
    \/ Start
    \/ Launch
    \/ NewContext
    \/ LoopHead
    \/ NewPage
    \/ Goto
    \/ Catch
    \/ ClosePage
    \/ RecordLimitations
    \/ CloseBrowser
    \/ Respond

RouteSpec == RouteInit /\ [][RouteNext]_vars

\* ------------------------------------------------------------------------
\* Claim about the route

\* the url fields that are strings and, once trimmed and given the https
\* scheme in place of none or of http://, parse as https URLs
HttpsAfterNormalization(url) ==
    /\ url.type = "string"
    /\ url.target # ""
    /\ url.scheme \in {"", "http", "https"}

CrawlStarted == pc \notin {"request", "responded"} \/ launches > 0 \/ outcome # "running"

AnalysisRan ==
    \/ pages # <<>>
    \/ classification.pageClassifications # <<>>
    \/ extracted.url # ""
    \/ "summary" \in DOMAIN comparison

\* C14: a request is answered with one of 400, 422, 500 and 200, once, at
\* the end of the handler.  It is answered 400 exactly when its url is
\* missing, not a string or not an https URL after normalization, and then
\* no crawl was started; of the others, 500 exactly when the crawl threw,
\* 422 exactly when it returned no snapshot, 200 exactly when it returned at
\* least one.  Classification, claim extraction and comparison have run only
\* in the last case.
C14_StatusByOutcome ==
    LET valid  == HttpsAfterNormalization(request.url)
        status == response.status
    IN  /\ status \in {0, 400, 422, 500, 200}
        /\ (status # 0) <=> (pc = "responded")
        /\ (status = 400) => ~valid
        /\ ~valid => /\ ~CrawlStarted
                     /\ fetched = <<>> /\ snapshots = <<>> /\ visited = {}
                     /\ pc = "responded" => status = 400
        /\ (valid /\ pc = "responded") =>
              /\ (status = 500) <=> (outcome = "rejected")
              /\ (status = 422) <=> (outcome = "returned" /\ Len(snapshots) = 0)
              /\ (status = 200) <=> (outcome = "returned" /\ Len(snapshots) >= 1)
        /\ AnalysisRan => (status = 200 /\ Len(snapshots) >= 1 /\ Len(pages) = Len(snapshots))

\* a request with a good url whose start page could not be fetched: 422, and
\* nothing was classified
C14_Witness ==
    /\ response.status = 422
    /\ HttpsAfterNormalization(request.url)
    /\ launches = 1 /\ Len(crawlErrors) = 1 /\ Len(fetched) = 1
    /\ ~AnalysisRan

\* ------------------------------------------------------------------------
\* Claims about the classifier

Classified == pc # "classify"

\* the matches recorded for page p, and the indices of those for a pattern
MatchesOn(p) == classification.pageClassifications[p].classifications

MatchesFor(p, id) == {m \in DOMAIN MatchesOn(p) : MatchesOn(p)[m].patternId = id}

\* the signals of a pattern that some element of the snapshot satisfies
SatisfiedSignals(pattern, snapshot) ==
    {j \in DOMAIN pattern.signals : SignalHits(pattern.signals[j], snapshot) # {}}

RECURSIVE SumWeights(_, _)
SumWeights(signals, S) ==
    IF S = {} THEN 0
    ELSE LET j == CHOOSE j \in S : TRUE
         IN  signals[j].weight + SumWeights(signals, S \ {j})

\* C15: for every snapshot and every pattern of the catalog, classifyPage
\* returns a match for the pattern exactly when at least one of its signals
\* matches; the confidence is the sum of the weights of the matched signals,
\* without cap, and the evidence has one entry per matched signal.
C15_ConfidenceIsSumOfMatchedWeights ==
    Classified =>
        \A p \in DOMAIN pages : \A k \in DOMAIN PATTERNS :
            LET satisfied == SatisfiedSignals(PATTERNS[k], pages[p])
                found     == MatchesFor(p, PATTERNS[k].id)
            IN  /\ Cardinality(found) = (IF satisfied = {} THEN 0 ELSE 1)
                /\ \A m \in found :
                      /\ MatchesOn(p)[m].confidence =
                            SumWeights(PATTERNS[k].signals, satisfied)
                      /\ Len(MatchesOn(p)[m].evidence) = Cardinality(satisfied)

\* a page classified with a confidence above 100, next to unmatched patterns
C15_Witness ==
    /\ Classified
    /\ \E m \in DOMAIN MatchesOn(1) :
          /\ MatchesOn(1)[m].patternId = "AUTH_PAGE"
          /\ MatchesOn(1)[m].confidence = 130
          /\ Len(MatchesOn(1)[m].evidence) = 6
    /\ MatchesFor(1, "UPLOAD_PAGE") = {}

\* a snapshot with no input, no button, no link and no visible text
Bare(snapshot) ==
    /\ snapshot.inputs = <<>> /\ snapshot.buttons = <<>> /\ snapshot.links = <<>>
    /\ snapshot.visibleText = ""

\* C16 (as stated): a snapshot with no input, button, link or visible text
\* yields no match, whatever its url is.
C16_BareSnapshotNeverMatches ==
    Classified =>
        \A p \in DOMAIN pages : Bare(pages[p]) => MatchesOn(p) = <<>>

\* the url signals of a pattern that match the url
UrlSignals(pattern, url) ==
    {j \in DOMAIN pattern.signals :
        pattern.signals[j].type = "url" /\ Test(pattern.signals[j].pattern, url)}

\* C16 (amended): a snapshot with no input, button, link or visible text
\* matches exactly the patterns that have a url signal matching its url,
\* each with the sum of the weights of those url signals and with url
\* evidence only; with an empty url it yields no match.
C16_BareSnapshotMatchesByUrlOnly ==
    Classified =>
        \A p \in DOMAIN pages : \A k \in DOMAIN PATTERNS :
            Bare(pages[p]) =>
                LET byUrl == UrlSignals(PATTERNS[k], pages[p].url)
                    found == MatchesFor(p, PATTERNS[k].id)
                IN  /\ Cardinality(found) = (IF byUrl = {} THEN 0 ELSE 1)
                    /\ pages[p].url = "" => found = {}
                    /\ \A m \in found :
                          /\ MatchesOn(p)[m].confidence =
                                SumWeights(PATTERNS[k].signals, byUrl)
                          /\ \A e \in DOMAIN MatchesOn(p)[m].evidence :
                                MatchesOn(p)[m].evidence[e].signalType = "url"

\* a bare snapshot of a site's root URL, classified as a landing page with
\* the 25 of the homepage url signal
C16_Witness ==
    /\ Classified
    /\ Bare(pages[1]) /\ pages[1].url = "https://acme.test/"
    /\ \E m \in DOMAIN MatchesOn(1) :
          /\ MatchesOn(1)[m].patternId = "LANDING_PAGE"
          /\ MatchesOn(1)[m].confidence = 25

\* the snapshot with one more input, button or link
WithInput(snapshot, e) == [snapshot EXCEPT !.inputs = Append(@, e)]

WithButton(snapshot, e) == [snapshot EXCEPT !.buttons = Append(@, e)]

WithLink(snapshot, e) == [snapshot EXCEPT !.links = Append(@, e)]

\* the confidence of every pattern in a result of classifyPage, 0 for none
Confidences(matches) ==
    [k \in DOMAIN PATTERNS |->
        SumWeights([m \in DOMAIN matches |-> [weight |-> matches[m].confidence]],
                   {m \in DOMAIN matches : matches[m].patternId = PATTERNS[k].id})]

\* C17: a signal earns its weight at most once per page: a pattern's
\* confidence never exceeds the sum of all its signal weights, and a further
\* copy of an input, a button or a link that the page already has changes no
\* pattern's confidence.
C17_FirstMatchWins ==
    Classified =>
        /\ \A p \in DOMAIN pages : \A k \in DOMAIN PATTERNS :
              \A m \in MatchesFor(p, PATTERNS[k].id) :
                  MatchesOn(p)[m].confidence <=
                      SumWeights(PATTERNS[k].signals, DOMAIN PATTERNS[k].signals)
        /\ LET home == pages[1]
               same(s) == Confidences(classifyPage(s)) = Confidences(MatchesOn(1))
           IN  /\ \A i \in DOMAIN home.inputs : same(WithInput(home, home.inputs[i]))
               /\ \A i \in DOMAIN home.buttons : same(WithButton(home, home.buttons[i]))
               /\ \A i \in DOMAIN home.links : same(WithLink(home, home.links[i]))

\* a page with two password inputs and two 'Log In' buttons, whose
\* authentication confidence counts each of the two signals once
C17_Witness ==
    /\ Classified
    /\ Cardinality({i \in DOMAIN pages[1].inputs :
                       pages[1].inputs[i].type = "password"}) = 2
    /\ Cardinality({i \in DOMAIN pages[1].buttons :
                       pages[1].buttons[i].text = "Log In"}) = 2
    /\ pages[1].links = <<>> /\ pages[1].visibleText = "" /\ pages[1].url = ""
    /\ \E m \in MatchesFor(1, "AUTH_PAGE") : MatchesOn(1)[m].confidence = 130

\* the greatest number of a non-empty set
Greatest(S) == CHOOSE x \in S : \A y \in S : y <= x

\* C18: classifyAllPages emits one feature per pattern matched on at least
\* one snapshot and none for the others; maxConfidence is the greatest
\* single-page confidence of the pattern, totalOccurrences the number of
\* snapshots it matched on and the length of evidencePages, and every
\* evidencePages entry keeps at most 3 evidence signals.
C18_FeaturesAggregatePages ==
    Classified =>
        LET features == classification.detectedFeatures
            pagesOf(id) == {p \in DOMAIN pages : MatchesFor(p, id) # {}}
            onPage(p, id) ==
                MatchesOn(p)[CHOOSE m \in MatchesFor(p, id) : TRUE].confidence
        IN  /\ \A k \in DOMAIN PATTERNS :
                  Cardinality({f \in DOMAIN features :
                                  features[f].patternId = PATTERNS[k].id})
                      = (IF pagesOf(PATTERNS[k].id) = {} THEN 0 ELSE 1)
            /\ \A f \in DOMAIN features :
                  LET id == features[f].patternId
                  IN  /\ features[f].maxConfidence =
                            Greatest({onPage(p, id) : p \in pagesOf(id)})
                      /\ features[f].totalOccurrences = Cardinality(pagesOf(id))
                      /\ Len(features[f].evidencePages) = features[f].totalOccurrences
                      /\ \A e \in DOMAIN features[f].evidencePages :
                            Len(features[f].evidencePages[e].topEvidence) <= 3

\* a pattern matched on three of four snapshots with different confidences,
\* the greatest not on the last page, and more than 3 signals cut to 3
C18_Witness ==
    /\ Classified
    /\ Len(pages) = 4
    /\ \E f \in DOMAIN classification.detectedFeatures :
          LET feature == classification.detectedFeatures[f]
          IN  /\ feature.patternId = "AUTH_PAGE"
              /\ feature.totalOccurrences = 3
              /\ feature.maxConfidence = 205
              /\ feature.evidencePages[1].confidence = 205
              /\ feature.evidencePages[3].confidence = 165
              /\ Len(feature.evidencePages[1].topEvidence) = 3

\* ------------------------------------------------------------------------
\* Claims about the claim extractor

Extracted == pc \notin {"classify", "extract"}

\* the claims recorded for a category
ClaimsFor(id) ==
    {c \in DOMAIN extracted.claims : extracted.claims[c].id = id}

\* the keywords of a category that match the visible text, a button text or
\* a link text of the snapshot
KeywordHits(config, snapshot) ==
    {j \in DOMAIN config.keywords :
        \/ Test(config.keywords[j], snapshot.visibleText)
        \/ \E b \in DOMAIN snapshot.buttons :
              Test(config.keywords[j], snapshot.buttons[b].text)
        \/ \E l \in DOMAIN snapshot.links :
              Test(config.keywords[j], snapshot.links[l].text)}

\* C19: extractClaims emits a claim for a category exactly when at least one
\* of its keywords matches the text, a button text or a link text of the
\* homepage; the confidence is min(25 * hits, 100), one of 25, 50, 75, 100,
\* and the evidence has min(hits, 3) entries.
C19_ClaimConfidenceFromHits ==
    Extracted =>
        \A k \in DOMAIN CLAIM_PATTERNS :
            LET hits  == Cardinality(KeywordHits(CLAIM_PATTERNS[k], pages[1]))
                found == ClaimsFor(CLAIM_PATTERNS[k].id)
            IN  /\ Cardinality(found) = (IF hits = 0 THEN 0 ELSE 1)
                /\ \A c \in found :
                      /\ extracted.claims[c].confidence =
                            (IF 25 * hits < 100 THEN 25 * hits ELSE 100)
                      /\ extracted.claims[c].confidence \in {25, 50, 75, 100}
                      /\ Len(extracted.claims[c].evidence) =
                            (IF hits < 3 THEN hits ELSE 3)

\* a homepage with 8 e-commerce keyword hits (claimed at 100 with 3 pieces
\* of evidence), two user-account hits (50) and no newsletter claim
C19_Witness ==
    /\ Extracted
    /\ Cardinality(KeywordHits(CLAIM_PATTERNS[3], pages[1])) = 8
    /\ \E c \in ClaimsFor("ECOMMERCE") :
          /\ extracted.claims[c].confidence = 100
          /\ Len(extracted.claims[c].evidence) = 3
    /\ \E c \in ClaimsFor("USER_ACCOUNTS") : extracted.claims[c].confidence = 50
    /\ ClaimsFor("NEWSLETTER") = {}

\* ------------------------------------------------------------------------
\* Claims about the comparison engine

Compared == pc = "report"

\* the detected features of the patterns related to a claim category
RelatedDetected(claimId) ==
    {f \in DOMAIN classification.detectedFeatures :
        \E i \in DOMAIN RelatedPatterns(claimId) :
            RelatedPatterns(claimId)[i] =
                classification.detectedFeatures[f].patternId}

\* the greatest maxConfidence among them
BestConfidence(claimId) ==
    Greatest({classification.detectedFeatures[f].maxConfidence :
                 f \in RelatedDetected(claimId)})

\* the findings about a claim or a pattern of the given name
FindingsAbout(feature) ==
    {i \in DOMAIN comparison.findings : comparison.findings[i].feature = feature}

\* C20: for every claim the outcome follows the maxConfidence c of the best
\* related detected feature: no finding when c >= 50; one weak_detection
\* finding with confidence c when 25 <= c < 50; one claimed_not_detected
\* finding with confidence c when c < 25; one claimed_not_detected finding
\* with confidence 0 when no related pattern was detected.
C20_OutcomeByThresholds ==
    Compared =>
        \A k \in DOMAIN extracted.claims :
            LET claim == extracted.claims[k]
                about == FindingsAbout(claim.label)
                none  == RelatedDetected(claim.id) = {}
                c     == IF none THEN 0 ELSE BestConfidence(claim.id)
                type  == IF none \/ c < 25 THEN "claimed_not_detected"
                         ELSE "weak_detection"
            IN  /\ Cardinality(about) = (IF ~none /\ c >= 50 THEN 0 ELSE 1)
                /\ \A i \in about :
                      /\ comparison.findings[i].type = type
                      /\ comparison.findings[i].confidence = c

\* one comparison with all four outcomes: a claim whose best related feature
\* has exactly 50 and no finding, one in 25..45 reported weak, one below 25
\* and one with no related feature detected, both reported as not detected
C20_Witness ==
    /\ Compared
    /\ \E k \in DOMAIN extracted.claims :
          /\ RelatedDetected(extracted.claims[k].id) # {}
          /\ BestConfidence(extracted.claims[k].id) = 50
          /\ FindingsAbout(extracted.claims[k].label) = {}
    /\ \E k \in DOMAIN extracted.claims :
          /\ RelatedDetected(extracted.claims[k].id) # {}
          /\ BestConfidence(extracted.claims[k].id) \in 25..49
          /\ \E i \in FindingsAbout(extracted.claims[k].label) :
                comparison.findings[i].type = "weak_detection"
    /\ \E k \in DOMAIN extracted.claims :
          /\ RelatedDetected(extracted.claims[k].id) # {}
          /\ BestConfidence(extracted.claims[k].id) \in 1..24
          /\ \E i \in FindingsAbout(extracted.claims[k].label) :
                /\ comparison.findings[i].type = "claimed_not_detected"
                /\ comparison.findings[i].confidence > 0
    /\ \E k \in DOMAIN extracted.claims :
          /\ RelatedDetected(extracted.claims[k].id) = {}
          /\ \E i \in FindingsAbout(extracted.claims[k].label) :
                /\ comparison.findings[i].type = "claimed_not_detected"
                /\ comparison.findings[i].confidence = 0

\* the findings of a type about a claim or a pattern of the given name
FindingsOf(type, feature) ==
    {i \in FindingsAbout(feature) : comparison.findings[i].type = type}

\* the feature the comparison selects for a claim category: of the related
\* detected features the one with the greatest maxConfidence, and of equal
\* ones the one whose pattern the category lists first
Position(claimId, f) ==
    CHOOSE i \in DOMAIN RelatedPatterns(claimId) :
        RelatedPatterns(claimId)[i] = classification.detectedFeatures[f].patternId

Selected(claimId) ==
    CHOOSE f \in RelatedDetected(claimId) :
        \A g \in RelatedDetected(claimId) :
            \/ classification.detectedFeatures[g].maxConfidence
                   < classification.detectedFeatures[f].maxConfidence
            \/ /\ classification.detectedFeatures[g].maxConfidence
                      = classification.detectedFeatures[f].maxConfidence
               /\ Position(claimId, f) <= Position(claimId, g)

\* the feature is the selected one of a claim that is strongly matched
MatchedToSatisfiedClaim(f) ==
    \E k \in DOMAIN extracted.claims :
        /\ RelatedDetected(extracted.claims[k].id) # {}
        /\ Selected(extracted.claims[k].id) = f
        /\ classification.detectedFeatures[f].maxConfidence >= 50

\* some extracted claim is of a category that lists the feature's pattern
ClaimedByCategory(f) ==
    \E k \in DOMAIN extracted.claims : f \in RelatedDetected(extracted.claims[k].id)

\* C21 as stated: a detected feature has a detected_not_claimed finding
\* exactly when its maxConfidence is at least 25 and it is not the selected
\* feature of a strongly matched claim.
C21_UnclaimedUnlessSatisfied ==
    Compared =>
        \A f \in DOMAIN classification.detectedFeatures :
            LET feature == classification.detectedFeatures[f]
            IN  (FindingsOf("detected_not_claimed", feature.patternName) # {})
                    <=> (feature.maxConfidence >= 25 /\ ~MatchedToSatisfiedClaim(f))

\* C21, amended: a detected feature has a detected_not_claimed finding
\* exactly when its maxConfidence is at least 25 and no extracted claim is
\* of a category that lists its pattern in CLAIM_TO_PATTERN_MAP, whatever
\* the strength of that claim's match; the finding is single, carries the
\* feature's maxConfidence, and no detected_not_claimed finding is about
\* anything but a detected feature.
C21_UnclaimedUnlessRelatedClaim ==
    Compared =>
        /\ \A f \in DOMAIN classification.detectedFeatures :
              LET feature == classification.detectedFeatures[f]
                  about   == FindingsOf("detected_not_claimed", feature.patternName)
              IN  /\ Cardinality(about) =
                        (IF feature.maxConfidence >= 25 /\ ~ClaimedByCategory(f)
                         THEN 1 ELSE 0)
                  /\ \A i \in about :
                        comparison.findings[i].confidence = feature.maxConfidence
        /\ \A i \in DOMAIN comparison.findings :
              comparison.findings[i].type = "detected_not_claimed" =>
                  \E f \in DOMAIN classification.detectedFeatures :
                      classification.detectedFeatures[f].patternName
                          = comparison.findings[i].feature

\* one comparison with the four cases: an unclaimed feature at 25 or more
\* that is reported, an unclaimed one below 25 that is not, the selected
\* feature of a weakly matched claim and a related feature that was not
\* selected, both at 25 or more and not reported
C21_Witness ==
    /\ Compared
    /\ \E f \in DOMAIN classification.detectedFeatures :
          /\ ~ClaimedByCategory(f)
          /\ classification.detectedFeatures[f].maxConfidence >= 25
          /\ FindingsOf("detected_not_claimed",
                        classification.detectedFeatures[f].patternName) # {}
    /\ \E f \in DOMAIN classification.detectedFeatures :
          /\ ~ClaimedByCategory(f)
          /\ classification.detectedFeatures[f].maxConfidence < 25
    /\ \E f \in DOMAIN classification.detectedFeatures :
          /\ \E k \in DOMAIN extracted.claims :
                /\ f \in RelatedDetected(extracted.claims[k].id)
                /\ Selected(extracted.claims[k].id) = f
          /\ classification.detectedFeatures[f].maxConfidence \in 25..49
          /\ FindingsAbout(classification.detectedFeatures[f].patternName) = {}
    /\ \E f \in DOMAIN classification.detectedFeatures :
          /\ ClaimedByCategory(f)
          /\ \A k \in DOMAIN extracted.claims :
                f \in RelatedDetected(extracted.claims[k].id) =>
                    Selected(extracted.claims[k].id) # f
          /\ classification.detectedFeatures[f].maxConfidence >= 25
          /\ FindingsAbout(classification.detectedFeatures[f].patternName) = {}

\* the rank of a finding type in the claimed order
Rank(type) ==
    CASE type = "claimed_not_detected" -> 0
      [] type = "weak_detection" -> 1
      [] type = "detected_not_claimed" -> 2

\* C22: in the findings of a comparison every claimed_not_detected finding
\* comes before every weak_detection finding, and both come before every
\* detected_not_claimed finding.
C22_FindingsOrderedBySeverity ==
    Compared =>
        /\ \A i \in DOMAIN comparison.findings :
              comparison.findings[i].type \in
                  {"claimed_not_detected", "weak_detection", "detected_not_claimed"}
        /\ \A i, j \in DOMAIN comparison.findings :
              i < j => Rank(comparison.findings[i].type)
                          <= Rank(comparison.findings[j].type)

\* a comparison with findings of the three types in which a weakly matched
\* claim is extracted before a claim that is not detected, so that the
\* findings were pushed out of order
C22_Witness ==
    /\ Compared
    /\ \E k, l \in DOMAIN extracted.claims :
          /\ k < l
          /\ FindingsOf("weak_detection", extracted.claims[k].label) # {}
          /\ FindingsOf("claimed_not_detected", extracted.claims[l].label) # {}
    /\ \E i \in DOMAIN comparison.findings :
          comparison.findings[i].type = "detected_not_claimed"

\* ------------------------------------------------------------------------
\* Claims about whole analyses

AuthOnlySite == pages \in AuthOnlySites

\* the matches of the first page with a pattern
HomeMatches(patternId) ==
    {m \in DOMAIN classification.pageClassifications[1].classifications :
        classification.pageClassifications[1].classifications[m].patternId = patternId}

OneUserAccountsClaim ==
    /\ Len(extracted.claims) = 1
    /\ extracted.claims[1].id = "USER_ACCOUNTS"

FullMatchRate ==
    /\ comparison.analysis # <<>>
    /\ comparison.analysis[1].line = "match rate"
    /\ comparison.analysis[1].rate = 100

\* C23 as stated: the analysis of a site whose one page holds a password
\* input, an email input and a Log In button gives the authentication
\* pattern the confidence 70, the single claim USER_ACCOUNTS, no finding and
\* a match rate of 100%.
C23_AuthOnlySiteNoFindings ==
    (Compared /\ AuthOnlySite) =>
        /\ \E m \in HomeMatches("AUTH_PAGE") :
              classification.pageClassifications[1].classifications[m].confidence = 70
        /\ OneUserAccountsClaim
        /\ comparison.findings = <<>>
        /\ FullMatchRate

\* C23, amended: the page's URL is evidence too.  The authentication
\* pattern has the confidence 70, and 95 when the URL is a /login URL; the
\* single claim is USER_ACCOUNTS, it is strongly matched and the match rate
\* is 100%, so no finding is about a claim.  Every other pattern the URL
\* gives a confidence of 25 or more is reported as detected_not_claimed (the
\* landing page pattern at the root URL of a site, with 25), and there is
\* no finding at all when the URL matches no other pattern.
C23_AuthOnlySiteFindingsByUrl ==
    (Compared /\ AuthOnlySite) =>
        LET url     == pages[1].url
            matches == classification.pageClassifications[1].classifications
            others  == {m \in DOMAIN matches :
                           /\ matches[m].patternId # "AUTH_PAGE"
                           /\ matches[m].confidence >= 25}
        IN  /\ Cardinality(HomeMatches("AUTH_PAGE")) = 1
            /\ \A m \in HomeMatches("AUTH_PAGE") :
                  matches[m].confidence =
                      (IF url = "https://acme.test/login" THEN 95 ELSE 70)
            /\ OneUserAccountsClaim
            /\ FullMatchRate
            /\ Len(comparison.findings) = Cardinality(others)
            /\ \A m \in others :
                  \E i \in FindingsOf("detected_not_claimed", matches[m].patternName) :
                      comparison.findings[i].confidence = matches[m].confidence
            /\ url \in {NeutralUrl, "https://acme.test/login"} =>
                  comparison.findings = <<>>
            /\ url = "https://acme.test/" =>
                  /\ Len(comparison.findings) = 1
                  /\ comparison.findings[1].type = "detected_not_claimed"
                  /\ comparison.findings[1].feature = LANDING_PAGE.name
                  /\ comparison.findings[1].confidence = 25

\* the site at a URL that no pattern looks for: 70, one claim, no finding
C23_Witness ==
    /\ Compared
    /\ AuthOnlySite
    /\ pages[1].url = NeutralUrl
    /\ pages[1].visibleText = "Log In"
    /\ \E m \in HomeMatches("AUTH_PAGE") :
          classification.pageClassifications[1].classifications[m].confidence = 70
    /\ OneUserAccountsClaim
    /\ comparison.findings = <<>>
    /\ FullMatchRate

\* a homepage that advertises support, followed by pages of which none
\* shows a signal of the contact pattern
SupportClaimedOnly ==
    /\ pages \in SupportSites
    /\ \A p \in 2..Len(pages) :
          \A m \in DOMAIN classifyPage(pages[p]) :
              classifyPage(pages[p])[m].patternId # "CONTACT_SUPPORT"

ContactClaimLabel == "Contact / Support"

\* C24 as stated: on such a site the contact claim has a
\* claimed_not_detected finding with confidence 0.
C24_SupportClaimConfidenceZero ==
    (Compared /\ SupportClaimedOnly) =>
        \E i \in FindingsOf("claimed_not_detected", ContactClaimLabel) :
            comparison.findings[i].confidence = 0

\* C24, amended: the homepage is classified like every page, and its word
\* "support" is a visible_text signal of the contact pattern with weight
\* 20.  The contact claim is extracted and has exactly one finding, whose
\* confidence is never 0: claimed_not_detected with confidence 20, or
\* weak_detection with confidence 45 when the homepage's URL is a /contact
\* URL (url signal, weight 25).
C24_SupportClaimConfidenceOfHomepage ==
    (Compared /\ SupportClaimedOnly) =>
        LET atContact == pages[1].url = "https://acme.test/contact"
        IN  /\ ClaimsFor("CONTACT_SUPPORT") # {}
            /\ Cardinality(FindingsAbout(ContactClaimLabel)) = 1
            /\ \A i \in FindingsAbout(ContactClaimLabel) :
                  /\ comparison.findings[i].confidence = (IF atContact THEN 45 ELSE 20)
                  /\ comparison.findings[i].type =
                        (IF atContact THEN "weak_detection" ELSE "claimed_not_detected")

\* the homepage at the root URL followed by a page with nothing and one with
\* a login form: the contact claim is reported as not detected, with 20
C24_Witness ==
    /\ Compared
    /\ SupportClaimedOnly
    /\ Len(pages) = 3
    /\ pages[1].url = "https://acme.test/"
    /\ \E i \in FindingsOf("claimed_not_detected", ContactClaimLabel) :
          comparison.findings[i].confidence = 20

\* the lines of a kind in the analysis summary
Lines(kind) == {i \in DOMAIN comparison.analysis : comparison.analysis[i].line = kind}

\* r is x / y as a percentage, rounded to the nearest integer (half up)
RoundedPercentage(r, x, y) ==
    /\ 2 * (r * y - 100 * x) <= y
    /\ 2 * (100 * x - r * y) < y

\* C25: the summary has the "no clear claims" line exactly when no claim was
\* extracted, and then no match-rate line; otherwise it has one match-rate
\* line, whose rate is matched / claimed as a rounded percentage in 0..100.
\* The missing, weak and underpromoted lines are there exactly when the
\* count they report is not 0.
C25_SummaryLinesByCounts ==
    Compared =>
        LET claimed    == Len(extracted.claims)
            matched    == Len(comparison.summary.matchedFeatures)
            missing    == Len(comparison.summary.missingFeatures)
            weak       == Len(comparison.summary.weakFeatures)
            unexpected == Len(comparison.summary.unexpectedFeatures)
        IN  /\ Cardinality(Lines("no clear claims")) = (IF claimed = 0 THEN 1 ELSE 0)
            /\ Cardinality(Lines("match rate")) = (IF claimed = 0 THEN 0 ELSE 1)
            /\ \A i \in Lines("match rate") :
                  /\ comparison.analysis[i].matched = matched
                  /\ comparison.analysis[i].claimed = claimed
                  /\ comparison.analysis[i].rate \in 0..100
                  /\ RoundedPercentage(comparison.analysis[i].rate, matched, claimed)
            /\ Cardinality(Lines("missing")) = (IF missing # 0 THEN 1 ELSE 0)
            /\ Cardinality(Lines("weak")) = (IF weak # 0 THEN 1 ELSE 0)
            /\ Cardinality(Lines("underpromoted")) = (IF unexpected # 0 THEN 1 ELSE 0)
            /\ \A i \in Lines("missing") : comparison.analysis[i].count = missing
            /\ \A i \in Lines("weak") : comparison.analysis[i].count = weak
            /\ \A i \in Lines("underpromoted") : comparison.analysis[i].count = unexpected

\* two of three claims matched: a rate of 67, with the missing and the
\* underpromoted line and without the weak line
C25_Witness ==
    /\ Compared
    /\ Len(extracted.claims) = 3
    /\ Len(comparison.summary.matchedFeatures) = 2
    /\ \E i \in Lines("match rate") : comparison.analysis[i].rate = 67
    /\ Lines("no clear claims") = {}
    /\ Lines("missing") # {}
    /\ Lines("weak") = {}
    /\ Lines("underpromoted") # {}

\* ------------------------------------------------------------------------
\* Claims about the queue and the first snapshot

Smaller(a, b) == IF a < b THEN a ELSE b

\* C26: the queue and the snapshots never hold more than 2 * MAX_PAGES = 30
\* entries together.  The links found on a fetched page are pushed in their
\* order, each only while queue length plus snapshot count (the page's own
\* snapshot counted) is below 30; the links that are left when the sum has
\* reached 30 are not pushed.  Nothing else is pushed but the start URL that
\* seeds the queue.
C26_QueueBounded ==
    [][ /\ Len(queue) + Len(snapshots) <= 30
        /\ Len(queue') + Len(snapshots') <= 30
        /\ (pc = "goto" /\ pc' = "pageFinally") =>
              LET found == NewLinks(Links(site, cur[1].url.id), baseDomain, visited)
                  room  == 30 - (Len(queue) + Len(snapshots'))
                  added == Appended(queue, queue')
              IN  /\ Len(added) =
                        (IF cur[1].depth < MAX_DEPTH THEN Smaller(Len(found), room)
                         ELSE 0)
                  /\ \A i \in 1..Len(added) :
                        /\ added[i].url = found[i]
                        /\ Len(queue) + (i - 1) + Len(snapshots') < 30
        /\ (pc # "start" /\ ~(pc = "goto" /\ pc' = "pageFinally")) =>
              Len(queue') <= Len(queue) ]_vars

\* a page was fetched when queue and snapshots held 29 entries: its first
\* link took the last place and its last link was not pushed
C26_Witness ==
    /\ pc = "pageFinally" /\ err = ""
    /\ cur[1].depth < MAX_DEPTH
    /\ Len(queue) + Len(snapshots) = 30
    /\ LET found == NewLinks(Links(site, cur[1].url.id), baseDomain, visited)
       IN  /\ Len(found) > 1
           /\ queue[Len(queue)] = Entry(found[1], cur[1].depth + 1)
           /\ queue[Len(queue)] # Entry(found[Len(found)], cur[1].depth + 1)

\* C28: the first snapshot of a crawl is that of the start URL.  The start
\* URL is the first URL fetched; as long as there is no snapshot no second
\* URL is fetched, so a crawl whose start page failed or was skipped has no
\* snapshot at all.  The claims of a report are extracted from that first
\* snapshot, whatever number of pages followed.
C28_FirstSnapshotIsHomepage ==
    /\ Len(fetched) >= 1 => fetched[1] = startUrl
    /\ Len(fetched) >= 2 => Len(snapshots) >= 1
    /\ Len(snapshots) >= 1 =>
          /\ snapshots[1].url = FinalUrl(site, startUrl)
          /\ \A i \in 1..Len(crawlErrors) : crawlErrors[i].url # startUrl
    /\ response.status = 200 =>
          /\ extracted.url = Href(FinalUrl(site, startUrl))
          /\ pages[1].url = extracted.url

\* a report on a crawl of several pages, one of which failed: its claims
\* are those of the start page
C28_Witness ==
    /\ response.status = 200
    /\ Len(snapshots) >= 3
    /\ Len(crawlErrors) >= 1
    /\ extracted.url = Href(startUrl)
    /\ extracted.claims # <<>>

\* ------------------------------------------------------------------------
\* Claims about the selection of the best match and the summary lists

\* the entries of summary.matchedFeatures for a claim label
MatchedEntries(label) ==
    {i \in DOMAIN comparison.summary.matchedFeatures :
        comparison.summary.matchedFeatures[i].claim = label}

\* C27: the pattern recorded for a claim is the one selected among the
\* detected patterns related to its category: the one of greatest
\* maxConfidence and, of equal ones, the one the category lists first.  A
\* strongly matched claim has one entry in matchedFeatures, which names the
\* selected pattern and its confidence; the finding of any other claim
\* carries the selected pattern's confidence; a claim with no related
\* pattern detected has no entry.
C27_BestMatchFirstListedOnTie ==
    Compared =>
        \A k \in DOMAIN extracted.claims :
            LET claim   == extracted.claims[k]
                entries == MatchedEntries(claim.label)
            IN  IF RelatedDetected(claim.id) = {}
                THEN entries = {}
                ELSE LET best == classification.detectedFeatures[Selected(claim.id)]
                     IN  IF best.maxConfidence >= 50
                         THEN /\ Cardinality(entries) = 1
                              /\ \A i \in entries :
                                    /\ comparison.summary.matchedFeatures[i].detected
                                          = best.patternName
                                    /\ comparison.summary.matchedFeatures[i].confidence
                                          = best.maxConfidence
                         ELSE /\ entries = {}
                              /\ \A i \in FindingsAbout(claim.label) :
                                    comparison.findings[i].confidence = best.maxConfidence

\* the two patterns related to user accounts were detected with the same
\* confidence, the dashboard first: the claim is matched to the
\* authentication page, which its category lists first; and a claim whose
\* second pattern has the greater confidence is matched to that one
C27_Witness ==
    /\ Compared
    /\ \E f, g \in DOMAIN classification.detectedFeatures :
          /\ f < g
          /\ classification.detectedFeatures[f].patternId = "DASHBOARD"
          /\ classification.detectedFeatures[g].patternId = "AUTH_PAGE"
          /\ classification.detectedFeatures[f].maxConfidence = 50
          /\ classification.detectedFeatures[g].maxConfidence = 50
    /\ \E i \in MatchedEntries("User accounts") :
          comparison.summary.matchedFeatures[i].detected = AUTH_PAGE.name
    /\ \E i \in MatchedEntries("Free trial") :
          /\ comparison.summary.matchedFeatures[i].detected = PRICING_PAGE.name
          /\ \E f \in DOMAIN classification.detectedFeatures :
                classification.detectedFeatures[f].patternId = "LANDING_PAGE"

\* the labels in a list of the summary
Labels(list) == {list[i] : i \in DOMAIN list}

MatchedLabels ==
    {comparison.summary.matchedFeatures[i].claim :
        i \in DOMAIN comparison.summary.matchedFeatures}

FindingsOfType(type) ==
    {i \in DOMAIN comparison.findings : comparison.findings[i].type = type}

\* C29: every claim is in exactly one of matchedFeatures, weakFeatures and
\* missingFeatures, once: the three hold different claims, nothing but
\* claims, and their lengths add up to the number of claims.  No claim has
\* more than one finding, and there are as many claimed_not_detected and
\* weak_detection findings as missing and weak claims.
C29_ClaimsPartitioned ==
    Compared =>
        LET matched == comparison.summary.matchedFeatures
            weak    == comparison.summary.weakFeatures
            missing == comparison.summary.missingFeatures
            claimed == {extracted.claims[k].label : k \in DOMAIN extracted.claims}
        IN  /\ MatchedLabels \cap Labels(weak) = {}
            /\ MatchedLabels \cap Labels(missing) = {}
            /\ Labels(weak) \cap Labels(missing) = {}
            /\ MatchedLabels \cup Labels(weak) \cup Labels(missing) = claimed
            /\ Len(matched) + Len(weak) + Len(missing) = Len(extracted.claims)
            /\ \A k \in DOMAIN extracted.claims :
                  Cardinality(FindingsAbout(extracted.claims[k].label)) <= 1
            /\ Cardinality(FindingsOfType("claimed_not_detected")) = Len(missing)
            /\ Cardinality(FindingsOfType("weak_detection")) = Len(weak)

\* five claims: two matched, one weak, two missing
C29_Witness ==
    /\ Compared
    /\ Len(extracted.claims) = 5
    /\ Len(comparison.summary.matchedFeatures) = 2
    /\ Len(comparison.summary.weakFeatures) = 1
    /\ Len(comparison.summary.missingFeatures) = 2
    /\ Cardinality(FindingsOfType("detected_not_claimed")) = 0
    /\ Len(comparison.findings) = 3

\* --------------------------------------------------------------------------
\* Claims about categories with no related pattern
\* --------------------------------------------------------------------------

UnmappedCategories ==
    {"NEWSLETTER", "API", "MOBILE_APP", "BLOG", "SOCIAL_LOGIN", "CHAT_SUPPORT",
     "TEAM_COLLABORATION"}

ClaimCategories == {CLAIM_PATTERNS[i].id : i \in DOMAIN CLAIM_PATTERNS}

\* C30: NEWSLETTER, API, MOBILE_APP, BLOG, SOCIAL_LOGIN, CHAT_SUPPORT and
\* TEAM_COLLABORATION are the categories with no entry in
\* CLAIM_TO_PATTERN_MAP, and a claim of such a category has exactly one
\* finding, claimed_not_detected with confidence 0, is listed as missing and
\* is neither matched nor weak, whatever was detected.
C30_UnmappedClaimsMissing ==
    /\ UnmappedCategories = ClaimCategories \ DOMAIN CLAIM_TO_PATTERN_MAP
    /\ Compared =>
          \A k \in DOMAIN extracted.claims :
              LET claim == extracted.claims[k]
              IN  claim.id \in UnmappedCategories =>
                    /\ Cardinality(FindingsAbout(claim.label)) = 1
                    /\ \A i \in FindingsAbout(claim.label) :
                          /\ comparison.findings[i].type = "claimed_not_detected"
                          /\ comparison.findings[i].confidence = 0
                    /\ claim.label \in Labels(comparison.summary.missingFeatures)
                    /\ claim.label \notin MatchedLabels
                    /\ claim.label \notin Labels(comparison.summary.weakFeatures)

\* newsletter and chat support claimed on a site where all four compared
\* patterns are detected strongly
C30_Witness ==
    /\ Compared
    /\ {"NEWSLETTER", "CHAT_SUPPORT"} \subseteq
          {extracted.claims[k].id : k \in DOMAIN extracted.claims}
    /\ Len(classification.detectedFeatures) = 4
    /\ \A f \in DOMAIN classification.detectedFeatures :
          classification.detectedFeatures[f].maxConfidence >= STRONG
    /\ "Newsletter subscription" \in Labels(comparison.summary.missingFeatures)

====
